---- MODULE Spec2Model ----
(***************************************************************************)
(* Verification model of the dagex directed-graph core:                    *)
(*   DirectedGraph::from_dto          (dagex_impl/src/core/directed_graph.rs) *)
(*   PhylogeneticNetwork validation   (dagex_impl/src/phylo/phylogenetic_network.rs) *)
(*                                                                         *)
(* Conventions.  An ArrowDTO is the pair <<source, target>>.  A Node is    *)
(* its i32 id.  Option<T> is a sequence of length at most one: None is     *)
(* <<>> and Some(v) is <<v>>.  A Vec indexed from 0 (the ArrowMap) is a    *)
(* function on 0..len-1; a SmallVec of nodes is a sequence.  A HashMap is  *)
(* a function whose DOMAIN is its key set; a HashSet is a set.  A u32 hash *)
(* is the pair <<high 16 bits, low 16 bits>>.                              *)
(***************************************************************************)
EXTENDS Integers, Sequences, FiniteSets, TLC

VARIABLES
    dto,              \* the DirectedGraphDTO handed to DirectedGraph::from_dto
    result,           \* what the last DirectedGraph::from_dto returned
    previous,         \* an earlier (dto, result) pair kept by the caller
    network,          \* what PhylogeneticNetwork::from_graph_and_taxa returned
    ATOMIC_COUNTER,   \* global_id.rs _ATOMIC_COUNTER
    pc,               \* position of the caller: "input", "built", "validated"
    gene_networks,    \* the Vec<PhylogeneticNetwork> handed to GenesOverSpecies::new
    species_network,  \* the species network handed to it (an Option)
    genes_over_species,  \* what GenesOverSpecies::new returned
    episode_candidates,  \* the HashSet<Node> handed to the algorithm
    output,           \* what EpisodeFeasabilityAlgorithm::run returned
    tri,              \* TriBool operands and the value of the last operation
    minted,           \* the GlobalIds each thread got from generate_next
    lookup,           \* the last get_successors / get_predecessors call
    evaluation,       \* the last call of a feasibility formula
    token_data,       \* the CancellationTokenData the source and tokens share
    cancellers,       \* the threads calling cancel on the source or a clone
    registrar,        \* the thread calling register and unregister
    called,           \* how often, and by whom, each callback was called
    stream            \* an InMemoryStream and what its caller wrote and read

graph_vars == <<dto, result, previous, network>>

algorithm_vars ==
    <<gene_networks, species_network, genes_over_species, episode_candidates,
      output, tri, minted>>

token_vars == <<token_data, cancellers, registrar, called>>

utility_vars ==
    <<lookup, evaluation, token_data, cancellers, registrar, called, stream>>

vars == <<dto, result, previous, network, ATOMIC_COUNTER, pc, gene_networks,
          species_network, genes_over_species, episode_candidates, output,
          tri, minted, lookup, evaluation, token_data, cancellers, registrar,
          called, stream>>

----------------------------------------------------------------------------
(* Bounds of the model.                                                    *)

\* Spec: node counts 1..MaxNodes are materialised; arrow lists of any order.
MaxNodes == 2
MaxArrows == 3
\* SpecGraph: arrow lists in ascending order, every endpoint in range.
GraphNodes == 4
GraphArrows == 4
\* SpecEq: two graphs built one after the other.
EqNodes == 2
EqArrows == 2
\* Taxon mappings handed to the network validation have at most this many keys.
MaxTaxa == 1
\* SpecIds: threads minting ids, ids kept per thread, blocks of dropped ids.
MaxThreads == 2
MaxIds == 2
MaxBlocks == 2
\* SpecGenes: gene networks handed to GenesOverSpecies::new.
MaxGenes == 3
\* SpecToken: callbacks registered on one token, enough for a sweep.
MaxRegistrations == 7
\* SpecRace: callbacks registered while the source is being cancelled.
RaceRegistrations == 3
\* SpecRace and SpecToken: threads calling cancel.
MaxCancellers == 2
\* SpecStream: page sizes 2 .. MaxPageSize, buffers of at most MaxBuffer
\* bytes, at most MaxWritten bytes written in all.
MaxPageSize == 3
MaxBuffer == 3
MaxWritten == 6
\* SpecEpisode: gene networks handed to the episode feasibility algorithm.
EpisodeGenes == 2

Taxons == {"a", "b"}

----------------------------------------------------------------------------
(* Option, ArrowDTO.                                                       *)

None == <<>>
Some(v) == <<v>>
is_none(o) == o = <<>>
is_some(o) == o # <<>>
unwrap(o) == o[1]

source(arrow) == arrow[1]
target(arrow) == arrow[2]

\* DirectedGraph::max_size
max_size == 4194304

----------------------------------------------------------------------------
(* FNV-1a, 32 bit, on 16-bit limbs (TLC integers are 32-bit signed).       *)

RECURSIVE Xor(_, _)
Xor(a, b) ==
    IF a = 0 THEN b
    ELSE IF b = 0 THEN a
    ELSE (((a % 2) + (b % 2)) % 2) + 2 * Xor(a \div 2, b \div 2)

FNV1A_INITIAL == <<33052, 40389>>       \* 0x811c9dc5
FNV1A_MULTIPLIER == <<256, 403>>        \* 0x01000193

\* tmp ^= byte; tmp = tmp.wrapping_mul(FNV1A_MULTIPLIER)
update_fnv1a_hash(hash, byte) ==
    LET lo == Xor(hash[2], byte)
        low == lo * FNV1A_MULTIPLIER[2]
        high == hash[1] * FNV1A_MULTIPLIER[2] + lo * FNV1A_MULTIPLIER[1]
                  + (low \div 65536)
    IN  <<high % 65536, low % 65536>>

U32 == (0 .. 65535) \X (0 .. 65535)

\* Hasher::write of the `count` little-endian bytes of `value`: the bytes are
\* folded into the state one by one
write[hasher \in U32, value \in Nat, count \in 0 .. 8] ==
    IF count = 0 THEN hasher
    ELSE write[update_fnv1a_hash(hasher, value % 256), value \div 256,
               count - 1]

create_u32_hasher == FNV1A_INITIAL

\* Hash for i32 (a node id or a node count, never negative here): 4 bytes
hash_i32(hasher, x) == write[hasher, x, 4]

\* Hash for usize (a length or an index): 8 bytes
hash_usize(hasher, x) == write[hasher, x, 8]

\* Hash for the u64 that accumulates the finish() values of the 32-bit
\* hasher: the low limb, the high limb, four zero bytes
hash_u64(hasher, res) ==
    write[write[write[hasher, res[2], 2], res[1], 2], 0, 4]

\* res ^= internal_hasher.finish(), for the nodes of one adjacency list
RECURSIVE xor_nodes(_, _, _)
xor_nodes(internal, i, res) ==
    IF i > Len(internal) THEN res
    ELSE LET h == hash_i32(create_u32_hasher, internal[i])
         IN  xor_nodes(internal, i + 1, <<Xor(res[1], h[1]), Xor(res[2], h[2])>>)

RECURSIVE update_vec_from(_, _, _, _)
update_vec_from(vec, len, idx, hasher) ==
    IF idx >= len THEN hasher
    ELSE update_vec_from(vec, len, idx + 1,
            hash_u64(hash_usize(hash_usize(hasher, idx), Len(vec[idx])),
                     xor_nodes(vec[idx], 1, <<0, 0>>)))

update_vec(vec, len, hasher) ==
    update_vec_from(vec, len, 0, hash_usize(hasher, len))

\* the hash block of DirectedGraph::new_unchecked
graph_hash(number_of_nodes, successors_map, predecessors_map) ==
    update_vec(predecessors_map, number_of_nodes,
        update_vec(successors_map, number_of_nodes,
            hash_i32(create_u32_hasher, number_of_nodes)))

----------------------------------------------------------------------------
(* DirectedGraph::from_dto and its helpers.                                *)

\* insert_node_to_arrow_map: HashMap<Node, HashSet<Node>>
insert_node_to_arrow_map(key, value, map) ==
    IF key \in DOMAIN map
    THEN [map EXCEPT ![key] = @ \cup {value}]
    ELSE map @@ (key :> {value})

\* The order in which a HashSet hands out its elements is not specified; the
\* model hands them out from the largest id to the smallest.
RECURSIVE iter(_)
iter(set) ==
    IF set = {} THEN <<>>
    ELSE LET m == CHOOSE x \in set : \A y \in set : y <= x
         IN  <<m>> \o iter(set \ {m})

\* insertion of one node into a list already sorted by Node::id (stable)
RECURSIVE sort_insert(_, _)
sort_insert(sorted, node) ==
    IF sorted = <<>> THEN <<node>>
    ELSE IF sorted[Len(sorted)] <= node THEN Append(sorted, node)
    ELSE Append(sort_insert(SubSeq(sorted, 1, Len(sorted) - 1), node),
                sorted[Len(sorted)])

\* internal.sort_by_key(Node::id)
RECURSIVE sort_by_key(_)
sort_by_key(vec) ==
    IF vec = <<>> THEN <<>>
    ELSE sort_insert(sort_by_key(SubSeq(vec, 1, Len(vec) - 1)), vec[Len(vec)])

\* mutant of to_arrow_map: the lists are left in the order of the iteration
to_arrow_map_unsorted(number_of_nodes, map) ==
    [idx \in 0 .. (number_of_nodes - 1) |->
        IF idx \in DOMAIN map THEN iter(map[idx]) ELSE <<>>]

to_arrow_map(number_of_nodes, map) ==
    [idx \in 0 .. (number_of_nodes - 1) |->
        IF idx \in DOMAIN map THEN sort_by_key(iter(map[idx])) ELSE <<>>]

\* mutant of scan_arrows: multi_arrows remembers the last arrow only
RECURSIVE scan_arrows_last_only(_, _, _, _, _, _)
scan_arrows_last_only(number_of_nodes, arrows, i, multi_arrows, successor_map_duplicates, predecessor_map_duplicates) ==
    IF i > Len(arrows)
    THEN [kind |-> "Ok",
          successor_map_duplicates |-> successor_map_duplicates,
          predecessor_map_duplicates |-> predecessor_map_duplicates]
    ELSE LET arrow == arrows[i] IN
         IF arrow \in multi_arrows
         THEN [kind |-> "MultipleParallelArrows", arrow |-> arrow]
         ELSE IF \/ source(arrow) < 0
                 \/ source(arrow) >= number_of_nodes
                 \/ target(arrow) < 0
                 \/ target(arrow) >= number_of_nodes
         THEN [kind |-> "ArrowOutsideOfNodesRange", arrow |-> arrow]
         ELSE scan_arrows_last_only(number_of_nodes, arrows, i + 1,
                  {arrow},
                  insert_node_to_arrow_map(source(arrow), target(arrow),
                                           successor_map_duplicates),
                  insert_node_to_arrow_map(target(arrow), source(arrow),
                                           predecessor_map_duplicates))

\* the loop over the arrows (directed_graph.rs 199-223): the first arrow that
\* repeats an earlier one or has an endpoint out of range ends it
RECURSIVE scan_arrows(_, _, _, _, _, _)
scan_arrows(number_of_nodes, arrows, i, multi_arrows, successor_map_duplicates, predecessor_map_duplicates) ==
    IF i > Len(arrows)
    THEN [kind |-> "Ok",
          successor_map_duplicates |-> successor_map_duplicates,
          predecessor_map_duplicates |-> predecessor_map_duplicates]
    ELSE LET arrow == arrows[i] IN
         IF arrow \in multi_arrows
         THEN [kind |-> "MultipleParallelArrows", arrow |-> arrow]
         ELSE IF \/ source(arrow) < 0
                 \/ source(arrow) >= number_of_nodes
                 \/ target(arrow) < 0
                 \/ target(arrow) >= number_of_nodes
         THEN [kind |-> "ArrowOutsideOfNodesRange", arrow |-> arrow]
         ELSE scan_arrows(number_of_nodes, arrows, i + 1,
                  multi_arrows \cup {arrow},
                  insert_node_to_arrow_map(source(arrow), target(arrow),
                                           successor_map_duplicates),
                  insert_node_to_arrow_map(target(arrow), source(arrow),
                                           predecessor_map_duplicates))

\* the loop over the nodes (directed_graph.rs 230-256)
RECURSIVE scan_nodes(_, _, _, _, _)
scan_nodes(idx, number_of_nodes, predecessors_map, successors_map, acc) ==
    IF idx >= number_of_nodes THEN acc
    ELSE LET preds_len == Len(predecessors_map[idx])
             succs_len == Len(successors_map[idx])
         IN  scan_nodes(idx + 1, number_of_nodes, predecessors_map,
                 successors_map,
                 [root_node |->
                      IF preds_len = 0 /\ is_none(acc.root_node)
                      THEN Some(idx) ELSE acc.root_node,
                  multiple_roots |->
                      IF preds_len = 0 /\ is_some(acc.root_node)
                      THEN TRUE ELSE acc.multiple_roots,
                  leaves |->
                      IF succs_len = 0 THEN acc.leaves \cup {idx}
                      ELSE acc.leaves,
                  binary |->
                      IF preds_len > 2 \/ succs_len > 2 THEN FALSE
                      ELSE acc.binary,
                  tree |-> IF preds_len > 1 THEN FALSE ELSE acc.tree])

\* seen is inserted into before the successors are visited and removed from
\* after them, so each call sees the set of the nodes on its path
RECURSIVE verify_acyclic_check_cycle(_, _, _)
verify_acyclic_check_cycle(node, seen, successors_map) ==
    IF node \in seen THEN TRUE
    ELSE LET succs == successors_map[node] IN
         /\ succs # <<>>
         /\ \E i \in 1 .. Len(succs) :
                verify_acyclic_check_cycle(succs[i], seen \cup {node},
                                           successors_map)

\* nodes_stack holds 0..number_of_nodes-1 and is popped from its end
RECURSIVE verify_acyclic_from(_, _)
verify_acyclic_from(top, successors_map) ==
    IF top < 0 THEN TRUE
    ELSE IF verify_acyclic_check_cycle(top, {}, successors_map) THEN FALSE
    ELSE verify_acyclic_from(top - 1, successors_map)

\* mutant of verify_acyclic: only the first node popped is checked
verify_acyclic_first_only(number_of_nodes, successors_map) ==
    ~verify_acyclic_check_cycle(number_of_nodes - 1, {}, successors_map)

verify_acyclic(number_of_nodes, successors_map) ==
    verify_acyclic_from(number_of_nodes - 1, successors_map)

\* state is [reachable_nodes, seen]; the predecessors are visited first
RECURSIVE verify_connected_remove_all_reachable(_, _, _, _)
RECURSIVE verify_connected_visit(_, _, _, _, _)
verify_connected_remove_all_reachable(node, state, predecessor_map, successors_map) ==
    IF node \in state.seen THEN state
    ELSE LET entered == [reachable_nodes |-> state.reachable_nodes \ {node},
                         seen |-> state.seen \cup {node}]
             after_preds == verify_connected_visit(predecessor_map[node], 1,
                                entered, predecessor_map, successors_map)
         IN  verify_connected_visit(successors_map[node], 1, after_preds,
                                    predecessor_map, successors_map)

verify_connected_visit(list, i, state, predecessor_map, successors_map) ==
    IF i > Len(list) THEN state
    ELSE verify_connected_visit(list, i + 1,
             verify_connected_remove_all_reachable(list[i], state,
                 predecessor_map, successors_map),
             predecessor_map, successors_map)

verify_connected(number_of_nodes, predecessor_map, successors_map) ==
    verify_connected_remove_all_reachable(0,
        [reachable_nodes |-> 0 .. (number_of_nodes - 1), seen |-> {}],
        predecessor_map, successors_map).reachable_nodes = {}

\* DirectedGraph::new_unchecked: the hash and the fresh id
new_unchecked(id, number_of_nodes, successors_map, predecessors_map, properties, root_node, leaves) ==
    [id |-> id,
     number_of_nodes |-> number_of_nodes,
     successors_map |-> successors_map,
     predecessors_map |-> predecessors_map,
     basic_properties |-> properties,
     root_node |-> root_node,
     leaves |-> leaves,
     hash_value |-> graph_hash(number_of_nodes, successors_map,
                               predecessors_map)]

\* mutant of rooted_of: multiple_roots is not looked at
rooted_of_any_root(scanned) == is_some(scanned.root_node)

\* rooted and root_node (directed_graph.rs 258-265)
rooted_of(scanned) == is_some(scanned.root_node) /\ ~scanned.multiple_roots

\* mutant of connected_of: the traversal is skipped for every rooted graph
connected_of_rooted_only(rooted, acyclic, number_of_nodes, predecessors_map, successors_map) ==
    IF rooted THEN TRUE
    ELSE verify_connected(number_of_nodes, predecessors_map, successors_map)

\* acyclic and connected (directed_graph.rs 267-277)
connected_of(rooted, acyclic, number_of_nodes, predecessors_map, successors_map) ==
    IF rooted /\ acyclic THEN TRUE
    ELSE verify_connected(number_of_nodes, predecessors_map, successors_map)

\* the graph built once the arrows have passed (directed_graph.rs 225-282)
build_graph(id, number_of_nodes, scan) ==
    LET successors_map ==
            to_arrow_map(number_of_nodes, scan.successor_map_duplicates)
        predecessors_map ==
            to_arrow_map(number_of_nodes, scan.predecessor_map_duplicates)
        scanned == scan_nodes(0, number_of_nodes, predecessors_map,
                       successors_map,
                       [root_node |-> None, multiple_roots |-> FALSE,
                        leaves |-> {}, binary |-> TRUE, tree |-> TRUE])
        rooted == rooted_of(scanned)
        acyclic == verify_acyclic(number_of_nodes, successors_map)
    IN  new_unchecked(id, number_of_nodes, successors_map, predecessors_map,
            [acyclic |-> acyclic,
             connected |-> connected_of(rooted, acyclic, number_of_nodes,
                               predecessors_map, successors_map),
             rooted |-> rooted,
             binary |-> scanned.binary,
             tree |-> scanned.tree],
            IF rooted THEN scanned.root_node ELSE None,
            scanned.leaves)

\* mutant of from_dto_scan: max_size itself is refused
from_dto_scan_off_by_one(value) ==
    IF value.number_of_nodes <= 0 THEN [kind |-> "EmptyGraph"]
    ELSE IF value.number_of_nodes >= max_size THEN [kind |-> "TooBigGraph"]
    ELSE scan_arrows(value.number_of_nodes, value.arrows, 1, {},
                     <<>>, <<>>)

\* the checks of from_dto that end it with an error (directed_graph.rs 171-223)
from_dto_scan(value) ==
    IF value.number_of_nodes <= 0 THEN [kind |-> "EmptyGraph"]
    ELSE IF value.number_of_nodes > max_size THEN [kind |-> "TooBigGraph"]
    ELSE scan_arrows(value.number_of_nodes, value.arrows, 1, {},
                     <<>>, <<>>)

\* DirectedGraph::from_dto; id is the value _ATOMIC_COUNTER.fetch_add returns
from_dto(value, id) ==
    LET scan == from_dto_scan(value) IN
    IF scan.kind # "Ok" THEN scan
    ELSE [kind |-> "Ok",
          graph |-> build_graph(id, value.number_of_nodes, scan)]

\* what a call leaves behind when indexing a Vec at or past its length
\* panics: no adjacency list holds the node -1
IndexOutOfBounds == <<-1>>

\* get_from_arrow_map
get_from_arrow_map(node, arrow_map, len) ==
    IF node < 0 \/ node > len THEN <<>>
    ELSE IF node \in DOMAIN arrow_map THEN arrow_map[node]
    ELSE IndexOutOfBounds

get_successors(graph, node) ==
    get_from_arrow_map(node, graph.successors_map, graph.number_of_nodes)

get_predecessors(graph, node) ==
    get_from_arrow_map(node, graph.predecessors_map, graph.number_of_nodes)

iter_nodes(graph) == 0 .. (graph.number_of_nodes - 1)

\* mutant of DirectedGraphEq: the ids have to agree as well
DirectedGraphEq_same_id(self, other) ==
    /\ self.id = other.id
    /\ self.hash_value = other.hash_value
    /\ self.number_of_nodes = other.number_of_nodes
    /\ self.successors_map = other.successors_map
    /\ self.predecessors_map = other.predecessors_map

\* impl PartialEq for DirectedGraph
DirectedGraphEq(self, other) ==
    \/ self.id = other.id
    \/ /\ self.hash_value = other.hash_value
       /\ self.number_of_nodes = other.number_of_nodes
       /\ self.successors_map = other.successors_map
       /\ self.predecessors_map = other.predecessors_map

----------------------------------------------------------------------------
(* PhylogeneticNetwork (dagex_impl/src/phylo/phylogenetic_network.rs).      *)
(* The hash_value of a network is read by no operation modelled here and   *)
(* is left out of the record.                                              *)

\* PhylogeneticNetwork::from_unchecked
from_unchecked(graph, taxa, id) ==
    [graph |-> graph, taxa |-> taxa, id |-> id]

\* the loop over the leaves (phylogenetic_network.rs 121-125)
leaves_of_in_degree_one(graph) ==
    \A leaf \in graph.leaves : Len(get_predecessors(graph, leaf)) = 1

\* mutant of graph_checks: rooted is checked before acyclic
graph_checks_rooted_first(graph) ==
    LET props == graph.basic_properties IN
    IF ~props.rooted THEN "NotRooted"
    ELSE IF ~props.acyclic THEN "NotAcyclic"
    ELSE IF ~props.binary THEN "NotBinary"
    ELSE IF ~leaves_of_in_degree_one(graph) THEN "LeavesNotOfInDegreeOne"
    ELSE "Ok"

\* the checks of from_graph_and_taxa, in their order (phylogenetic_network.rs
\* 108-125): the variant returned
graph_checks(graph) ==
    LET props == graph.basic_properties IN
    IF ~props.acyclic THEN "NotAcyclic"
    ELSE IF ~props.rooted THEN "NotRooted"
    ELSE IF ~props.binary THEN "NotBinary"
    ELSE IF ~leaves_of_in_degree_one(graph) THEN "LeavesNotOfInDegreeOne"
    ELSE "Ok"

\* PhylogeneticNetwork::from_graph_and_taxa
from_graph_and_taxa(graph, taxa, id) ==
    IF graph_checks(graph) # "Ok"
    THEN [kind |-> graph_checks(graph), graph |-> graph]
    ELSE [kind |-> "Ok", network |-> from_unchecked(graph, taxa, id)]

\* PhylogeneticNetwork::root
root(self) == unwrap(self.graph.root_node)

\* mutant of is_tree_node: the leaves are not excluded
is_tree_node_with_leaves(self, node) ==
    Len(get_predecessors(self.graph, node)) <= 1

is_tree_node(self, node) ==
    IF node \in self.graph.leaves THEN FALSE
    ELSE Len(get_predecessors(self.graph, node)) <= 1

\* mutant of is_reticulation_node: the out-degree is not looked at
is_reticulation_node_in_degree_only(self, node) ==
    Len(get_predecessors(self.graph, node)) = 2

is_reticulation_node(self, node) ==
    /\ Len(get_predecessors(self.graph, node)) = 2
    /\ Len(get_successors(self.graph, node)) = 1

\* mutant of is_cross_node: the in-degree is not looked at
is_cross_node_any_in_degree(self, node) ==
    Len(get_successors(self.graph, node)) = 2

is_cross_node(self, node) ==
    /\ Len(get_predecessors(self.graph, node)) = 2
    /\ Len(get_successors(self.graph, node)) = 2

\* PhylogeneticNetwork::is_leaf, through DirectedGraph::is_leaf
is_leaf(self, node) == get_successors(self.graph, node) = <<>>

----------------------------------------------------------------------------
(* GlobalId (dagex_impl/src/global_id.rs).  The counter is an AtomicI32:   *)
(* fetch_add wraps around on overflow.                                     *)

i32_MAX == 2147483647

\* i32 wrapping addition of a non-negative n
wrapping_add(a, n) ==
    IF a > i32_MAX - n THEN (a - i32_MAX - 1) + (n - i32_MAX - 1)
    ELSE a + n

\* AtomicI32::fetch_add(n, Relaxed): one atomic step that returns the
\* previous value
fetch_add(counter, n) ==
    [previous |-> counter, counter |-> wrapping_add(counter, n)]

\* GlobalId::generate_next
generate_next(counter) ==
    [id |-> fetch_add(counter, 1).previous,
     counter |-> fetch_add(counter, 1).counter]

----------------------------------------------------------------------------
(* GenesOverSpecies (dagex_impl/src/phylo/genes_over_species.rs).          *)

\* HashMap::values() collected into a HashSet
values(map) == {map[key] : key \in DOMAIN map}

\* mutant of has_valid_taxa: is_superset instead of is_subset
has_valid_taxa_superset(gene_network, species_taxa) ==
    species_taxa \subseteq values(gene_network.taxa)

has_valid_taxa(gene_network, species_taxa) ==
    values(gene_network.taxa) \subseteq species_taxa

\* the loop over species_taxa_map.values() (genes_over_species.rs 63-69):
\* an insert fails exactly when two keys carry one taxon
species_taxa_duplicates(species) ==
    Cardinality(values(species.taxa)) < Cardinality(DOMAIN species.taxa)

GenesOverSpecies_new_unchecked(networks, by_id, species) ==
    [gene_networks |-> networks,
     gene_networks_by_id |-> by_id,
     species_network |-> species]

\* the loop over the gene networks (genes_over_species.rs 74-81): each
\* network is tested for its taxa and then for its id before the next one
\* is looked at; idx counts from 0
RECURSIVE scan_gene_networks(_, _, _, _)
scan_gene_networks(networks, species_taxa, idx, by_id) ==
    IF idx >= Len(networks) THEN [kind |-> "Ok", by_id |-> by_id]
    ELSE LET gene_network == networks[idx + 1] IN
         IF ~has_valid_taxa(gene_network, species_taxa)
         THEN [kind |-> "IncorrectTaxa"]
         ELSE IF gene_network.id \in DOMAIN by_id
         THEN [kind |-> "DuplicatedIds"]
         ELSE scan_gene_networks(networks, species_taxa, idx + 1,
                                 (gene_network.id :> idx) @@ by_id)

\* GenesOverSpecies::new
GenesOverSpecies_new(networks, species) ==
    IF networks = <<>> THEN [kind |-> "EmptyGeneNetworks"]
    ELSE IF species_taxa_duplicates(species)
    THEN [kind |-> "SpeciesContainsTaxaDuplicates"]
    ELSE LET scan == scan_gene_networks(networks, values(species.taxa), 0,
                                        <<>>)
         IN  IF scan.kind # "Ok" THEN [kind |-> scan.kind]
             ELSE [kind |-> "Ok",
                   value |-> GenesOverSpecies_new_unchecked(networks,
                                 scan.by_id, species)]

\* GenesOverSpecies::get_gene_network_by_id
get_gene_network_by_id(self, id) ==
    IF id \in DOMAIN self.gene_networks_by_id
    THEN Some(self.gene_networks[self.gene_networks_by_id[id] + 1])
    ELSE None

----------------------------------------------------------------------------
(* TriBool (utils/multi_valued_logic/src/tribool/models.rs).  A TriBool is *)
(* its u8 value.                                                           *)

TriBool_FALSE == 0
TriBool_UNKNOWN == 1
TriBool_TRUE == 2

TriBools == {TriBool_FALSE, TriBool_UNKNOWN, TriBool_TRUE}

AND_TABLE ==
    <<<<TriBool_FALSE, TriBool_FALSE, TriBool_FALSE>>,
      <<TriBool_FALSE, TriBool_UNKNOWN, TriBool_UNKNOWN>>,
      <<TriBool_FALSE, TriBool_UNKNOWN, TriBool_TRUE>>>>

\* mutant of AND_TABLE: the row of UNKNOWN ends in TRUE
AND_TABLE_unknown_row ==
    <<<<TriBool_FALSE, TriBool_FALSE, TriBool_FALSE>>,
      <<TriBool_FALSE, TriBool_UNKNOWN, TriBool_TRUE>>,
      <<TriBool_FALSE, TriBool_UNKNOWN, TriBool_TRUE>>>>

OR_TABLE ==
    <<<<TriBool_FALSE, TriBool_UNKNOWN, TriBool_TRUE>>,
      <<TriBool_UNKNOWN, TriBool_UNKNOWN, TriBool_TRUE>>,
      <<TriBool_TRUE, TriBool_TRUE, TriBool_TRUE>>>>

\* mutant of and: the table of the mutant
and_unknown_row(self, rhs) == AND_TABLE_unknown_row[self + 1][rhs + 1]

\* TriBool::and
and(self, rhs) == AND_TABLE[self + 1][rhs + 1]

\* TriBool::or
or(self, rhs) == OR_TABLE[self + 1][rhs + 1]

\* TriBool::neg
neg(self) == 2 - self

\* TriBool::is_certain
is_certain(self) == self = 2

\* mutant of is_possible: UNKNOWN is left out
is_possible_above_unknown(self) == self > 1

\* TriBool::is_possible
is_possible(self) == self >= 1

----------------------------------------------------------------------------
(* Episode feasibility (dagex_algorithms/src/episode_feasibility).  The    *)
(* formulas return a TriBool; a failed assert or unwrap is the value       *)
(* Panic, which ends every caller as the unwinding does.                   *)

Panic == 3

\* tri.is_certain() as formulas.rs 73 uses it, where a TriBool is returned:
\* the predicate of models.rs as a TriBool
tribool_is_certain(self) ==
    IF is_certain(self) THEN TriBool_TRUE ELSE TriBool_FALSE

\* mutant of tribool_is_possible: TRUE and UNKNOWN both become UNKNOWN
tribool_is_possible_as_unknown(self) ==
    IF is_possible(self) THEN TriBool_UNKNOWN ELSE TriBool_FALSE

\* tri.is_possible() as formulas.rs 43 uses it, where a TriBool is or-ed in:
\* the predicate of models.rs as a TriBool
tribool_is_possible(self) ==
    IF is_possible(self) THEN TriBool_TRUE ELSE TriBool_FALSE

\* FormulaData::new
FormulaData_new(genes, species, candidates) ==
    [genes |-> genes, species |-> species, episode_candidates |-> candidates]

\* a.and(b) and a.or(b) where evaluating a or b may have panicked
and_unwinding(a, b) ==
    IF a = Panic \/ b = Panic THEN Panic ELSE and(a, b)

or_unwinding(a, b) ==
    IF a = Panic \/ b = Panic THEN Panic ELSE or(a, b)

\* the leaf case of sigma (formulas.rs 76-86): an unlabelled gene leaf
\* matches; a labelled one is compared with the species leaf's taxon, which
\* is unwrapped
sigma_leaves(self, gene_node, species_node) ==
    IF gene_node \in DOMAIN self.genes.taxa
    THEN IF species_node \notin DOMAIN self.species.taxa THEN Panic
         ELSE IF self.species.taxa[species_node] = self.genes.taxa[gene_node]
         THEN TriBool_TRUE
         ELSE TriBool_FALSE
    ELSE TriBool_TRUE

RECURSIVE delta(_, _, _)
RECURSIVE delta_down(_, _, _)
RECURSIVE delta_down_successors(_, _, _, _, _)
RECURSIVE sigma_straight_only(_, _, _)
RECURSIVE sigma(_, _, _)
RECURSIVE epsilon(_, _, _)
RECURSIVE delta_star(_, _, _)

\* mutant of delta: the result is not weakened at a species node that is not
\* an episode candidate
delta_unweakened(self, gene_node, species_node) ==
    IF is_tree_node(self.genes, gene_node)
    THEN delta_star(self, gene_node, species_node)
    ELSE TriBool_FALSE

\* FormulaData::delta
delta(self, gene_node, species_node) ==
    IF is_tree_node(self.genes, gene_node)
    THEN LET star_result == delta_star(self, gene_node, species_node) IN
         IF star_result = Panic THEN Panic
         ELSE IF species_node \in self.episode_candidates THEN star_result
         ELSE and(star_result, TriBool_UNKNOWN)
    ELSE TriBool_FALSE

\* the loop of delta_down over the successors of species_node
delta_down_successors(self, gene_node, species_node, i, epsilon_result) ==
    LET successors == get_successors(self.species.graph, species_node) IN
    IF i > Len(successors) THEN epsilon_result
    ELSE LET successor_result == delta_down(self, gene_node, successors[i])
             modified ==
                 IF species_node \in self.episode_candidates
                 THEN tribool_is_possible(successor_result)
                 ELSE successor_result
         IN  IF successor_result = Panic THEN Panic
             ELSE delta_down_successors(self, gene_node, species_node, i + 1,
                                        or(epsilon_result, modified))

\* FormulaData::delta_down
delta_down(self, gene_node, species_node) ==
    LET epsilon_result == epsilon(self, gene_node, species_node) IN
    IF epsilon_result = Panic THEN Panic
    ELSE IF is_leaf(self.species, species_node) THEN epsilon_result
    ELSE delta_down_successors(self, gene_node, species_node, 1,
                               epsilon_result)

\* mutant of sigma: the crossed pairing of the children is not tried
sigma_straight_only(self, gene_node, species_node) ==
    IF ~is_leaf(self.genes, gene_node) /\ ~is_leaf(self.species, species_node)
    THEN LET gsucc == get_successors(self.genes.graph, gene_node)
             ssucc == get_successors(self.species.graph, species_node)
         IN  IF Len(gsucc) # 2 \/ Len(ssucc) # 2 THEN Panic
             ELSE LET left_delta ==
                          and_unwinding(
                              delta_down(self, gsucc[1], ssucc[1]),
                              delta_down(self, gsucc[2], ssucc[2]))
                  IN  IF left_delta = Panic THEN Panic
                      ELSE tribool_is_certain(left_delta)
    ELSE IF is_leaf(self.genes, gene_node)
            /\ is_leaf(self.species, species_node)
    THEN sigma_leaves(self, gene_node, species_node)
    ELSE TriBool_FALSE

\* FormulaData::sigma.  The two assert_eq! (formulas.rs 63-64) fail when an
\* internal node has other than two successors.
sigma(self, gene_node, species_node) ==
    IF ~is_leaf(self.genes, gene_node) /\ ~is_leaf(self.species, species_node)
    THEN LET gsucc == get_successors(self.genes.graph, gene_node)
             ssucc == get_successors(self.species.graph, species_node)
         IN  IF Len(gsucc) # 2 \/ Len(ssucc) # 2 THEN Panic
             ELSE LET left_delta ==
                          and_unwinding(
                              delta_down(self, gsucc[1], ssucc[1]),
                              delta_down(self, gsucc[2], ssucc[2]))
                      right_delta ==
                          and_unwinding(
                              delta_down(self, gsucc[1], ssucc[2]),
                              delta_down(self, gsucc[2], ssucc[1]))
                  IN  IF left_delta = Panic \/ right_delta = Panic
                      THEN Panic
                      ELSE tribool_is_certain(or(left_delta, right_delta))
    ELSE IF is_leaf(self.genes, gene_node)
            /\ is_leaf(self.species, species_node)
    THEN sigma_leaves(self, gene_node, species_node)
    ELSE TriBool_FALSE

\* FormulaData::epsilon
epsilon(self, gene_node, species_node) ==
    LET sigma_result == sigma(self, gene_node, species_node) IN
    IF sigma_result = Panic THEN Panic
    ELSE IF sigma_result = TriBool_TRUE THEN TriBool_TRUE
    ELSE or_unwinding(sigma_result, delta(self, gene_node, species_node))

\* FormulaData::delta_star.  The assert! (formulas.rs 103) fails when the
\* gene node has other than two successors.
delta_star(self, gene_node, species_node) ==
    LET gene_successors == get_successors(self.genes.graph, gene_node) IN
    IF Len(gene_successors) # 2 THEN Panic
    ELSE LET left_gene == gene_successors[1]
             right_gene == gene_successors[2]
             left_result ==
                 and_unwinding(epsilon(self, left_gene, species_node),
                               delta_down(self, right_gene, species_node))
             right_result ==
                 and_unwinding(epsilon(self, right_gene, species_node),
                               delta_down(self, left_gene, species_node))
         IN  IF left_result = Panic THEN Panic
             ELSE IF left_result = TriBool_TRUE THEN TriBool_TRUE
             ELSE or_unwinding(left_result, right_result)

\* core::cmp::max
Max(a, b) == IF a >= b THEN a ELSE b

\* The nesting of the calls.  A call is [value, depth]: what it returned and
\* how many calls deep it went, itself included.
nested(value, depth) == [value |-> value, depth |-> depth]

\* the deepest of the calls a body makes one after the other; a call that
\* panics is the last one made
RECURSIVE deepest_call(_, _, _)
deepest_call(calls, i, deepest) ==
    IF i > Len(calls) THEN deepest
    ELSE IF calls[i].value = Panic THEN Max(deepest, calls[i].depth)
    ELSE deepest_call(calls, i + 1, Max(deepest, calls[i].depth))

RECURSIVE delta_call(_, _, _)
RECURSIVE delta_down_call(_, _, _)
RECURSIVE delta_down_successors_call(_, _, _, _, _, _)
RECURSIVE sigma_call(_, _, _)
RECURSIVE epsilon_call(_, _, _)
RECURSIVE delta_star_call(_, _, _)

\* mutant of delta_call: delta reaches delta_star through one more call
delta_call_through_wrapper(self, gene_node, species_node) ==
    IF is_tree_node(self.genes, gene_node)
    THEN LET star_result == delta_star_call(self, gene_node, species_node)
         IN  nested(IF star_result.value = Panic THEN Panic
                    ELSE IF species_node \in self.episode_candidates
                    THEN star_result.value
                    ELSE and(star_result.value, TriBool_UNKNOWN),
                    2 + star_result.depth)
    ELSE nested(TriBool_FALSE, 1)

\* FormulaData::delta with the nesting of its calls: delta_star on a tree
\* node
delta_call(self, gene_node, species_node) ==
    IF is_tree_node(self.genes, gene_node)
    THEN LET star_result == delta_star_call(self, gene_node, species_node)
         IN  nested(IF star_result.value = Panic THEN Panic
                    ELSE IF species_node \in self.episode_candidates
                    THEN star_result.value
                    ELSE and(star_result.value, TriBool_UNKNOWN),
                    1 + star_result.depth)
    ELSE nested(TriBool_FALSE, 1)

\* the loop of delta_down with the nesting of its calls: delta_down on each
\* successor of the species node
delta_down_successors_call(self, gene_node, species_node, i, epsilon_result, deepest) ==
    LET successors == get_successors(self.species.graph, species_node) IN
    IF i > Len(successors) THEN nested(epsilon_result, 1 + deepest)
    ELSE LET successor_result ==
                 delta_down_call(self, gene_node, successors[i])
             modified ==
                 IF species_node \in self.episode_candidates
                 THEN tribool_is_possible(successor_result.value)
                 ELSE successor_result.value
         IN  IF successor_result.value = Panic
             THEN nested(Panic, 1 + Max(deepest, successor_result.depth))
             ELSE delta_down_successors_call(
                      self, gene_node, species_node, i + 1,
                      or(epsilon_result, modified),
                      Max(deepest, successor_result.depth))

\* FormulaData::delta_down with the nesting of its calls: epsilon, then the
\* loop
delta_down_call(self, gene_node, species_node) ==
    LET epsilon_result == epsilon_call(self, gene_node, species_node) IN
    IF epsilon_result.value = Panic \/ is_leaf(self.species, species_node)
    THEN nested(epsilon_result.value, 1 + epsilon_result.depth)
    ELSE delta_down_successors_call(self, gene_node, species_node, 1,
                                    epsilon_result.value,
                                    epsilon_result.depth)

\* FormulaData::sigma with the nesting of its calls: four of delta_down on
\* the children of two internal nodes
sigma_call(self, gene_node, species_node) ==
    IF ~is_leaf(self.genes, gene_node) /\ ~is_leaf(self.species, species_node)
    THEN LET gsucc == get_successors(self.genes.graph, gene_node)
             ssucc == get_successors(self.species.graph, species_node)
         IN  IF Len(gsucc) # 2 \/ Len(ssucc) # 2 THEN nested(Panic, 1)
             ELSE LET calls ==
                          <<delta_down_call(self, gsucc[1], ssucc[1]),
                            delta_down_call(self, gsucc[2], ssucc[2]),
                            delta_down_call(self, gsucc[1], ssucc[2]),
                            delta_down_call(self, gsucc[2], ssucc[1])>>
                      left_delta ==
                          and_unwinding(calls[1].value, calls[2].value)
                      right_delta ==
                          and_unwinding(calls[3].value, calls[4].value)
                  IN  nested(IF left_delta = Panic \/ right_delta = Panic
                             THEN Panic
                             ELSE tribool_is_certain(
                                      or(left_delta, right_delta)),
                             1 + deepest_call(calls, 1, 0))
    ELSE IF is_leaf(self.genes, gene_node)
            /\ is_leaf(self.species, species_node)
    THEN nested(sigma_leaves(self, gene_node, species_node), 1)
    ELSE nested(TriBool_FALSE, 1)

\* FormulaData::epsilon with the nesting of its calls: sigma, then delta
\* unless sigma returned TRUE
epsilon_call(self, gene_node, species_node) ==
    LET sigma_result == sigma_call(self, gene_node, species_node)
        delta_result == delta_call(self, gene_node, species_node)
    IN  IF sigma_result.value \in {Panic, TriBool_TRUE}
        THEN nested(sigma_result.value, 1 + sigma_result.depth)
        ELSE nested(or_unwinding(sigma_result.value, delta_result.value),
                    1 + Max(sigma_result.depth, delta_result.depth))

\* FormulaData::delta_star with the nesting of its calls: epsilon and
\* delta_down on the two children, then the same with the children swapped
\* unless the first pair gave TRUE
delta_star_call(self, gene_node, species_node) ==
    LET gene_successors == get_successors(self.genes.graph, gene_node)
        left_gene == gene_successors[1]
        right_gene == gene_successors[2]
        left == <<epsilon_call(self, left_gene, species_node),
                  delta_down_call(self, right_gene, species_node)>>
        right == <<epsilon_call(self, right_gene, species_node),
                   delta_down_call(self, left_gene, species_node)>>
        left_result == and_unwinding(left[1].value, left[2].value)
        right_result == and_unwinding(right[1].value, right[2].value)
    IN  IF Len(gene_successors) # 2 THEN nested(Panic, 1)
        ELSE IF left_result \in {Panic, TriBool_TRUE}
        THEN nested(left_result, 1 + deepest_call(left, 1, 0))
        ELSE nested(or_unwinding(left_result, right_result),
                    1 + deepest_call(left \o right, 1, 0))

\* EpisodeFeasabilityInput::new
EpisodeFeasabilityInput_new(genes, candidates) ==
    [genes_over_species |-> genes, episode_candidates |-> candidates]

\* mutant of run_from: a gene network is recorded as feasible unless its
\* result is FALSE
RECURSIVE run_from_unless_false(_, _, _)
run_from_unless_false(input, i, result_map) ==
    LET genes == input.genes_over_species.gene_networks
        species == input.genes_over_species.species_network
    IN  IF i > Len(genes) THEN [kind |-> "Ok", result |-> result_map]
        ELSE LET formula_data ==
                     FormulaData_new(genes[i], species,
                                     input.episode_candidates)
                 calc_result ==
                     delta_down(formula_data, root(genes[i]), root(species))
             IN  IF calc_result = Panic THEN [kind |-> "Panic"]
                 ELSE run_from_unless_false(input, i + 1,
                          (genes[i].id :> (calc_result # TriBool_FALSE))
                              @@ result_map)

\* the loop of run over the gene networks (algorithm.rs 36-41)
RECURSIVE run_from(_, _, _)
run_from(input, i, result_map) ==
    LET genes == input.genes_over_species.gene_networks
        species == input.genes_over_species.species_network
    IN  IF i > Len(genes) THEN [kind |-> "Ok", result |-> result_map]
        ELSE LET formula_data ==
                     FormulaData_new(genes[i], species,
                                     input.episode_candidates)
                 calc_result ==
                     delta_down(formula_data, root(genes[i]), root(species))
             IN  IF calc_result = Panic THEN [kind |-> "Panic"]
                 ELSE run_from(input, i + 1,
                          (genes[i].id :> (calc_result = TriBool_TRUE))
                              @@ result_map)

\* EpisodeFeasabilityAlgorithm::run
run(input) == run_from(input, 1, <<>>)

----------------------------------------------------------------------------
(* cancellation_token: pdi_marked_vector.rs and cancellation_token_inner.rs  *)

\* PDIMarkedVector::default
PDIMarkedVector_default == [inner |-> <<>>, deleted_count |-> 0]

\* (len as f64).sqrt().ceil() as u32
sqrt_ceil(len) == CHOOSE n \in 0 .. len : n * n >= len /\ (n = 0 \/ (n - 1) * (n - 1) < len)

\* the loop of sweep (pdi_marked_vector.rs 27-34): the items that are Some
\* are moved to the front, in order
RECURSIVE sweep_from(_, _, _)
sweep_from(inner, idx, kept) ==
    IF idx > Len(inner) THEN kept
    ELSE sweep_from(inner, idx + 1,
                    IF is_some(inner[idx]) THEN Append(kept, inner[idx])
                    ELSE kept)

\* PDIMarkedVector::sweep
sweep(self) ==
    LET len == Len(self.inner)
        threshold == sqrt_ceil(len) + 2
    IN  IF self.deleted_count < threshold THEN self
        ELSE [inner |-> sweep_from(self.inner, 1, <<>>), deleted_count |-> 0]

\* PDIMarkedVector::push: the vector with the item and the indicator's idx
PDIMarkedVector_push(self, item) ==
    [vec |-> [self EXCEPT !.inner = Append(@, Some(item))],
     idx |-> Len(self.inner)]

\* PDIMarkedVector::swap: only the inner vectors change places
PDIMarkedVector_swap(self, other) ==
    [self |-> [self EXCEPT !.inner = other.inner],
     other |-> [other EXCEPT !.inner = self.inner]]

\* PDIMarkedItemIndicator::remove.  Indexing inner at or past its length
\* panics.
PDIMarkedItemIndicator_remove(vec, idx) ==
    IF idx >= Len(vec.inner) THEN [kind |-> "Panic", vec |-> vec]
    ELSE [kind |-> "Ok",
          vec |-> sweep([inner |-> [vec.inner EXCEPT ![idx + 1] = None],
                         deleted_count |-> vec.deleted_count + 1])]

\* PDIMarkedVector::into_iter
into_iter(self) == [inner |-> self.inner, current |-> 0, end |-> Len(self.inner)]

\* PDIMarkedIterator::next: the first item at or after current that is
\* Some, and the iterator after it
RECURSIVE PDIMarkedIterator_next(_, _)
PDIMarkedIterator_next(self, current) ==
    IF current < self.end
    THEN IF is_some(self.inner[current + 1])
         THEN [value |-> self.inner[current + 1],
               iterator |-> [self EXCEPT !.current = current + 1]]
         ELSE PDIMarkedIterator_next(self, current + 1)
    ELSE [value |-> None, iterator |-> self]

\* the pointer of a token made by CancellationToken::default, and of one
\* made by CancellationTokenSource::token
null_mut == 0
boxed == 1

\* CancellationTokenInner::get_state
get_state(ptr, data) ==
    IF ptr = null_mut THEN "NotCancellable"
    ELSE IF data.is_cancelled THEN "IsCancelled"
    ELSE "Ok"

----------------------------------------------------------------------------
(* The callers: a DTO is filled arrow by arrow, handed to from_dto, and    *)
(* the graph is handed on to the network validation.                       *)

NoResult == [kind |-> "None"]

\* the node counts a caller passes
NodeCounts == (-1 .. MaxNodes) \cup {max_size, max_size + 1}

\* the endpoints a caller uses with a node count: -1, the nodes, and the
\* first index past the nodes
EndpointsOf(number_of_nodes) ==
    -1 .. (IF number_of_nodes \in 1 .. MaxNodes THEN number_of_nodes ELSE 1)

\* HashMap<Node, Taxon> arguments: at most MaxTaxa keys, any of them a node
\* or the first index past the nodes
TaxaMaps(number_of_nodes) ==
    UNION {[keys -> Taxons] :
              keys \in {k \in SUBSET (0 .. number_of_nodes) :
                            Cardinality(k) <= MaxTaxa}}

\* a rejected graph is returned before the taxa are looked at: one mapping
\* stands for all of them there
TaxaArguments(graph) ==
    IF graph_checks(graph) = "Ok" THEN TaxaMaps(graph.number_of_nodes)
    ELSE {<<>>}

lt_arrow(a, b) ==
    \/ source(a) < source(b)
    \/ source(a) = source(b) /\ target(a) < target(b)

\* nothing was looked up, no formula was called
IdleUtilities ==
    /\ lookup = [kind |-> "None"]
    /\ evaluation = [kind |-> "None"]
    /\ token_data = [kind |-> "None"]
    /\ cancellers = <<>>
    /\ registrar = [pc |-> "None"]
    /\ called = <<>>
    /\ stream = [kind |-> "None"]

\* no gene networks, no TriBool operands, no thread holds an id
IdleAlgorithms ==
    /\ gene_networks = <<>>
    /\ species_network = <<>>
    /\ genes_over_species = [kind |-> "None"]
    /\ episode_candidates = {}
    /\ output = [kind |-> "None"]
    /\ tri = [op |-> "None"]
    /\ minted = <<>>

Init ==
    /\ dto \in [number_of_nodes : NodeCounts, arrows : {<<>>}]
    /\ result = NoResult
    /\ previous = <<>>
    /\ network = NoResult
    /\ ATOMIC_COUNTER = 0
    /\ pc = "input"
    /\ IdleAlgorithms
    /\ IdleUtilities

InitGraph ==
    /\ dto \in [number_of_nodes : 1 .. GraphNodes, arrows : {<<>>}]
    /\ result = NoResult
    /\ previous = <<>>
    /\ network = NoResult
    /\ ATOMIC_COUNTER = 0
    /\ pc = "input"
    /\ IdleAlgorithms
    /\ IdleUtilities

InitEq ==
    /\ dto \in [number_of_nodes : 1 .. EqNodes, arrows : {<<>>}]
    /\ result = NoResult
    /\ previous = <<>>
    /\ network = NoResult
    /\ ATOMIC_COUNTER = 0
    /\ pc = "input"
    /\ IdleAlgorithms
    /\ IdleUtilities

\* the caller appends an arrow to the DTO (any endpoints, any order)
PushArrow ==
    /\ pc = "input"
    /\ Len(dto.arrows) < MaxArrows
    /\ \E s, t \in EndpointsOf(dto.number_of_nodes) :
           dto' = [dto EXCEPT !.arrows = Append(@, <<s, t>>)]
    /\ UNCHANGED <<result, previous, network, ATOMIC_COUNTER, pc>>
    /\ UNCHANGED algorithm_vars
    /\ UNCHANGED utility_vars

\* the caller appends an arrow between two nodes, keeping the list ascending
PushArrowAscending ==
    /\ pc = "input"
    /\ Len(dto.arrows) < GraphArrows
    /\ \E s, t \in 0 .. (dto.number_of_nodes - 1) :
           /\ dto.arrows # <<>> =>
                  lt_arrow(dto.arrows[Len(dto.arrows)], <<s, t>>)
           /\ dto' = [dto EXCEPT !.arrows = Append(@, <<s, t>>)]
    /\ UNCHANGED <<result, previous, network, ATOMIC_COUNTER, pc>>
    /\ UNCHANGED algorithm_vars
    /\ UNCHANGED utility_vars

\* the first DTO of two: arrows between two nodes, the list kept ascending
PushArrowFirst ==
    /\ pc = "input"
    /\ previous = <<>>
    /\ Len(dto.arrows) < EqArrows
    /\ \E s, t \in 0 .. (dto.number_of_nodes - 1) :
           /\ dto.arrows # <<>> =>
                  lt_arrow(dto.arrows[Len(dto.arrows)], <<s, t>>)
           /\ dto' = [dto EXCEPT !.arrows = Append(@, <<s, t>>)]
    /\ UNCHANGED <<result, previous, network, ATOMIC_COUNTER, pc>>
    /\ UNCHANGED algorithm_vars
    /\ UNCHANGED utility_vars

\* the second DTO of two: arrows between two nodes, in any order
PushArrowSecond ==
    /\ pc = "input"
    /\ previous # <<>>
    /\ Len(dto.arrows) < EqArrows
    /\ \E s, t \in 0 .. (dto.number_of_nodes - 1) :
           dto' = [dto EXCEPT !.arrows = Append(@, <<s, t>>)]
    /\ UNCHANGED <<result, previous, network, ATOMIC_COUNTER, pc>>
    /\ UNCHANGED algorithm_vars
    /\ UNCHANGED utility_vars

\* DirectedGraph::from_dto(&dto).  A graph of max_size nodes is not
\* materialised: with that node count only the failing calls are taken.
FromDto ==
    /\ pc = "input"
    /\ dto.number_of_nodes < max_size \/ from_dto_scan(dto).kind # "Ok"
    /\ result' = from_dto(dto, ATOMIC_COUNTER)
    /\ ATOMIC_COUNTER' = IF result'.kind = "Ok" THEN ATOMIC_COUNTER + 1
                         ELSE ATOMIC_COUNTER
    /\ pc' = "built"
    /\ UNCHANGED <<dto, previous, network>>
    /\ UNCHANGED algorithm_vars
    /\ UNCHANGED utility_vars

\* PhylogeneticNetwork::from_graph_and_taxa(graph, taxa)
FromGraphAndTaxa ==
    /\ pc = "built"
    /\ result.kind = "Ok"
    /\ \E taxa \in TaxaArguments(result.graph) :
           network' = from_graph_and_taxa(result.graph, taxa, ATOMIC_COUNTER)
    /\ ATOMIC_COUNTER' = IF network'.kind = "Ok" THEN ATOMIC_COUNTER + 1
                         ELSE ATOMIC_COUNTER
    /\ pc' = "validated"
    /\ UNCHANGED <<dto, result, previous>>
    /\ UNCHANGED algorithm_vars
    /\ UNCHANGED utility_vars

\* graph.get_successors(Node::from(id)) on a graph that was built
GetSuccessors ==
    /\ pc = "built"
    /\ result.kind = "Ok"
    /\ \E id \in -1 .. (result.graph.number_of_nodes + 1) :
           lookup' = [kind |-> "get_successors", node |-> id,
                      slice |-> get_successors(result.graph, id)]
    /\ UNCHANGED <<graph_vars, ATOMIC_COUNTER, pc, evaluation>>
    /\ UNCHANGED algorithm_vars
    /\ UNCHANGED <<token_vars, stream>>

\* graph.get_predecessors(Node::from(id)) on a graph that was built
GetPredecessors ==
    /\ pc = "built"
    /\ result.kind = "Ok"
    /\ \E id \in -1 .. (result.graph.number_of_nodes + 1) :
           lookup' = [kind |-> "get_predecessors", node |-> id,
                      slice |-> get_predecessors(result.graph, id)]
    /\ UNCHANGED <<graph_vars, ATOMIC_COUNTER, pc, evaluation>>
    /\ UNCHANGED algorithm_vars
    /\ UNCHANGED <<token_vars, stream>>

\* the caller keeps the graph it got and starts a second DTO
Keep ==
    /\ pc = "built"
    /\ result.kind = "Ok"
    /\ previous = <<>>
    /\ previous' = <<[dto |-> dto, result |-> result]>>
    /\ \E n \in 1 .. EqNodes : dto' = [number_of_nodes |-> n, arrows |-> <<>>]
    /\ result' = NoResult
    /\ pc' = "input"
    /\ UNCHANGED <<network, ATOMIC_COUNTER>>
    /\ UNCHANGED algorithm_vars
    /\ UNCHANGED utility_vars

\* the arrows of test_with_reticulation (directed_graph_tests.rs 184)
ScenarioArrows ==
    {<<0, 1>>, <<1, 2>>, <<1, 3>>, <<2, 4>>, <<3, 5>>, <<2, 5>>}

\* the taxa handed to from_unchecked in the scenario: none, or a label on
\* node 0
ScenarioTaxa == {<<>>, [node \in {0} |-> "a"]}


\* build_dto: the node count is the greatest endpoint plus one
build_dto_push(value, s, t) ==
    [number_of_nodes |-> Max(s, Max(t, value.number_of_nodes - 1)) + 1,
     arrows |-> Append(value.arrows, <<s, t>>)]

InitScenario ==
    /\ dto = [number_of_nodes |-> 1, arrows |-> <<>>]
    /\ result = NoResult
    /\ previous = <<>>
    /\ network = NoResult
    /\ ATOMIC_COUNTER = 0
    /\ pc = "input"
    /\ IdleAlgorithms
    /\ IdleUtilities

\* build_dto over the scenario's arrows, each at most once, in any order
PushScenarioArrow ==
    /\ pc = "input"
    /\ \E arrow \in ScenarioArrows :
           /\ \A i \in 1 .. Len(dto.arrows) : dto.arrows[i] # arrow
           /\ dto' = build_dto_push(dto, source(arrow), target(arrow))
    /\ UNCHANGED <<result, previous, network, ATOMIC_COUNTER, pc>>
    /\ UNCHANGED algorithm_vars
    /\ UNCHANGED utility_vars

\* unsafe PhylogeneticNetwork::from_unchecked(graph, taxa): no check is made
FromUnchecked ==
    /\ pc = "built"
    /\ result.kind = "Ok"
    /\ \E taxa \in ScenarioTaxa :
           network' = [kind |-> "Unchecked",
                       network |-> from_unchecked(result.graph, taxa,
                                                  ATOMIC_COUNTER)]
    /\ ATOMIC_COUNTER' = ATOMIC_COUNTER + 1
    /\ pc' = "unchecked"
    /\ UNCHANGED <<dto, result, previous>>
    /\ UNCHANGED algorithm_vars
    /\ UNCHANGED utility_vars

\* no DTO is being filled
IdleGraph ==
    /\ dto = [number_of_nodes |-> 1, arrows |-> <<>>]
    /\ result = NoResult
    /\ previous = <<>>
    /\ network = NoResult

\* the operands of the table tests (tests/tribool.rs)
InitTribool ==
    /\ IdleGraph
    /\ IdleUtilities
    /\ ATOMIC_COUNTER = 0
    /\ pc = "tribool"
    /\ gene_networks = <<>>
    /\ species_network = <<>>
    /\ genes_over_species = [kind |-> "None"]
    /\ episode_candidates = {}
    /\ output = [kind |-> "None"]
    /\ tri \in [op : {"None"}, x : TriBools, y : TriBools, z : TriBools]
    /\ minted = <<>>

TriboolFrame ==
    UNCHANGED <<dto, result, previous, network, ATOMIC_COUNTER, pc,
                gene_networks, species_network, genes_over_species,
                episode_candidates, output, minted, lookup,
                evaluation, token_data, cancellers,
                registrar, called, stream>>

\* x.and(y)
And ==
    /\ tri' = [op |-> "and", x |-> tri.x, y |-> tri.y, z |-> tri.z,
               value |-> and(tri.x, tri.y)]
    /\ TriboolFrame

\* x.or(y)
Or ==
    /\ tri' = [op |-> "or", x |-> tri.x, y |-> tri.y, z |-> tri.z,
               value |-> or(tri.x, tri.y)]
    /\ TriboolFrame

\* x.neg()
Neg ==
    /\ tri' = [op |-> "neg", x |-> tri.x, y |-> tri.y, z |-> tri.z,
               value |-> neg(tri.x)]
    /\ TriboolFrame

\* x.is_certain()
IsCertain ==
    /\ tri' = [op |-> "is_certain", x |-> tri.x, y |-> tri.y, z |-> tri.z,
               holds |-> is_certain(tri.x)]
    /\ TriboolFrame

\* x.is_possible()
IsPossible ==
    /\ tri' = [op |-> "is_possible", x |-> tri.x, y |-> tri.y, z |-> tri.z,
               holds |-> is_possible(tri.x)]
    /\ TriboolFrame

Threads == 1 .. MaxThreads

\* a fresh process: the counter is 0 and no thread holds an id
InitIds ==
    /\ IdleGraph
    /\ IdleUtilities
    /\ ATOMIC_COUNTER = 0
    /\ pc = "ids"
    /\ gene_networks = <<>>
    /\ species_network = <<>>
    /\ genes_over_species = [kind |-> "None"]
    /\ episode_candidates = {}
    /\ output = [kind |-> "None"]
    /\ tri = [op |-> "None"]
    /\ minted = [ids |-> [t \in Threads |-> <<>>], dropped |-> 0]

IdsFrame ==
    UNCHANGED <<dto, result, previous, network, pc, gene_networks,
                species_network, genes_over_species, episode_candidates,
                output, tri, lookup,
                evaluation, token_data, cancellers,
                registrar, called, stream>>

\* a thread calls GlobalId::generate_next and keeps the id
GenerateNext ==
    /\ \E t \in Threads :
           /\ Len(minted.ids[t]) < MaxIds
           /\ minted' = [minted EXCEPT
                  !.ids[t] = Append(@, generate_next(ATOMIC_COUNTER).id)]
    /\ ATOMIC_COUNTER' = generate_next(ATOMIC_COUNTER).counter
    /\ IdsFrame

\* i32::MAX calls of generate_next whose ids are dropped (graphs and
\* networks that were built and released)
GenerateNextBlock ==
    /\ pc \in {"ids", "genes"}
    /\ minted.dropped < MaxBlocks
    /\ ATOMIC_COUNTER' = wrapping_add(ATOMIC_COUNTER, i32_MAX)
    /\ minted' = [minted EXCEPT !.dropped = @ + 1]
    /\ IdsFrame

\* build_dto / build_network over a whole slice of arrows
RECURSIVE build_dto_from(_, _, _)
build_dto_from(arrows, i, value) ==
    IF i > Len(arrows) THEN value
    ELSE build_dto_from(arrows, i + 1,
             build_dto_push(value, source(arrows[i]), target(arrows[i])))

build_dto(arrows) ==
    build_dto_from(arrows, 1, [number_of_nodes |-> 1, arrows |-> <<>>])

\* build_network (test_genes_over_species.rs 13-31): the graph takes one id
\* of the counter and the network the next one
build_network(arrows, taxa, counter) ==
    LET graph == from_dto(build_dto(arrows), generate_next(counter).id).graph
        after_graph == generate_next(counter).counter
    IN  [network |-> from_graph_and_taxa(graph, taxa,
                         generate_next(after_graph).id).network,
         counter |-> generate_next(after_graph).counter]

\* the shapes of the tests: a root with one leaf, a root with two leaves
Chain == <<<<0, 1>>>>
Cherry == <<<<0, 1>>, <<0, 2>>>>

LeavesOf(arrows) ==
    {target(arrows[i]) : i \in 1 .. Len(arrows)}
        \ {source(arrows[i]) : i \in 1 .. Len(arrows)}

\* taxa as the tests and the parser give them: labels on some of the leaves
LeafTaxa(arrows) == UNION {[keys -> Taxons] : keys \in SUBSET LeavesOf(arrows)}

InitGenes ==
    /\ IdleGraph
    /\ IdleUtilities
    /\ ATOMIC_COUNTER = 0
    /\ pc = "genes"
    /\ gene_networks = <<>>
    /\ species_network = <<>>
    /\ genes_over_species = [kind |-> "None"]
    /\ episode_candidates = {}
    /\ output = [kind |-> "None"]
    /\ tri = [op |-> "None"]
    /\ minted = [ids |-> [t \in Threads |-> <<>>], dropped |-> 0]

\* a gene network is built and pushed to the list
PushGeneNetwork ==
    /\ pc = "genes"
    /\ Len(gene_networks) < MaxGenes
    /\ \E taxa \in LeafTaxa(Chain) :
           LET built == build_network(Chain, taxa, ATOMIC_COUNTER) IN
           /\ gene_networks' = Append(gene_networks, built.network)
           /\ ATOMIC_COUNTER' = built.counter
    /\ UNCHANGED <<pc, species_network, genes_over_species,
                   episode_candidates, output, tri, minted>>
    /\ UNCHANGED graph_vars
    /\ UNCHANGED utility_vars

\* the species network is built
BuildSpeciesNetwork ==
    /\ pc = "genes"
    /\ \E taxa \in LeafTaxa(Cherry) :
           LET built == build_network(Cherry, taxa, ATOMIC_COUNTER) IN
           /\ species_network' = Some(built.network)
           /\ ATOMIC_COUNTER' = built.counter
    /\ pc' = "species"
    /\ UNCHANGED <<gene_networks, genes_over_species, episode_candidates,
                   output, tri, minted>>
    /\ UNCHANGED graph_vars
    /\ UNCHANGED utility_vars

\* GenesOverSpecies::new(gene_networks, species_network)
New ==
    /\ pc = "species"
    /\ genes_over_species' =
           GenesOverSpecies_new(gene_networks, unwrap(species_network))
    /\ pc' = "new"
    /\ UNCHANGED <<gene_networks, species_network, episode_candidates,
                   output, tri, minted, ATOMIC_COUNTER>>
    /\ UNCHANGED graph_vars
    /\ UNCHANGED utility_vars

\* the tree shapes the episode feasibility algorithm is run on
TreeShapes == {Chain, Cherry}

InitEpisode ==
    /\ IdleGraph
    /\ IdleUtilities
    /\ ATOMIC_COUNTER = 0
    /\ pc = "gene_trees"
    /\ gene_networks = <<>>
    /\ species_network = <<>>
    /\ genes_over_species = [kind |-> "None"]
    /\ episode_candidates = {}
    /\ output = [kind |-> "None"]
    /\ tri = [op |-> "None"]
    /\ minted = [ids |-> [t \in Threads |-> <<>>], dropped |-> 0]

\* a gene network of one of the shapes is built and pushed to the list
PushGeneTree ==
    /\ pc = "gene_trees"
    /\ Len(gene_networks) < EpisodeGenes
    /\ \E arrows \in TreeShapes : \E taxa \in LeafTaxa(arrows) :
           LET built == build_network(arrows, taxa, ATOMIC_COUNTER) IN
           /\ gene_networks' = Append(gene_networks, built.network)
           /\ ATOMIC_COUNTER' = built.counter
    /\ UNCHANGED <<pc, species_network, genes_over_species,
                   episode_candidates, output, tri, minted>>
    /\ UNCHANGED graph_vars
    /\ UNCHANGED utility_vars

\* the species network of one of the shapes is built
BuildSpeciesTree ==
    /\ pc = "gene_trees"
    /\ \E arrows \in TreeShapes : \E taxa \in LeafTaxa(arrows) :
           LET built == build_network(arrows, taxa, ATOMIC_COUNTER) IN
           /\ species_network' = Some(built.network)
           /\ ATOMIC_COUNTER' = built.counter
    /\ pc' = "species"
    /\ UNCHANGED <<gene_networks, genes_over_species, episode_candidates,
                   output, tri, minted>>
    /\ UNCHANGED graph_vars
    /\ UNCHANGED utility_vars

\* EpisodeFeasabilityAlgorithm::run over the GenesOverSpecies and a set of
\* species nodes
Run ==
    /\ pc = "new"
    /\ genes_over_species.kind = "Ok"
    /\ \E candidates \in
              SUBSET iter_nodes(genes_over_species.value.species_network.graph) :
           /\ episode_candidates' = candidates
           /\ output' = run(EpisodeFeasabilityInput_new(
                                genes_over_species.value, candidates))
    /\ pc' = "run"
    /\ UNCHANGED <<gene_networks, species_network, genes_over_species, tri,
                   minted, ATOMIC_COUNTER>>
    /\ UNCHANGED graph_vars
    /\ UNCHANGED utility_vars

\* the shape of "(d, (c, a))" in test_episode_feasibility.rs: a root with a
\* leaf and an internal node that has two leaves
Caterpillar == <<<<0, 1>>, <<0, 2>>, <<2, 3>>, <<2, 4>>>>

\* the tree shapes the formulas are called on
FormulaShapes == {Chain, Cherry, Caterpillar}

InitFormulas ==
    /\ IdleGraph
    /\ IdleUtilities
    /\ ATOMIC_COUNTER = 0
    /\ pc = "formula_trees"
    /\ gene_networks = <<>>
    /\ species_network = <<>>
    /\ genes_over_species = [kind |-> "None"]
    /\ episode_candidates = {}
    /\ output = [kind |-> "None"]
    /\ tri = [op |-> "None"]
    /\ minted = [ids |-> [t \in Threads |-> <<>>], dropped |-> 0]

\* the gene network of GenesOverSpecies::new_single_gene is built
BuildGeneTree ==
    /\ pc = "formula_trees"
    /\ gene_networks = <<>>
    /\ \E arrows \in FormulaShapes : \E taxa \in LeafTaxa(arrows) :
           LET built == build_network(arrows, taxa, ATOMIC_COUNTER) IN
           /\ gene_networks' = Append(gene_networks, built.network)
           /\ ATOMIC_COUNTER' = built.counter
    /\ UNCHANGED <<pc, species_network, genes_over_species,
                   episode_candidates, output, tri, minted>>
    /\ UNCHANGED graph_vars
    /\ UNCHANGED utility_vars

\* its species network is built
BuildSpeciesTreeOfShape ==
    /\ pc = "formula_trees"
    /\ gene_networks # <<>>
    /\ \E arrows \in FormulaShapes : \E taxa \in LeafTaxa(arrows) :
           LET built == build_network(arrows, taxa, ATOMIC_COUNTER) IN
           /\ species_network' = Some(built.network)
           /\ ATOMIC_COUNTER' = built.counter
    /\ pc' = "species"
    /\ UNCHANGED <<gene_networks, genes_over_species, episode_candidates,
                   output, tri, minted>>
    /\ UNCHANGED graph_vars
    /\ UNCHANGED utility_vars

\* FormulaData::new(genes, species, candidates) and one call of each formula
\* on a gene node and a species node
Call ==
    /\ pc = "new"
    /\ genes_over_species.kind = "Ok"
    /\ LET genes == genes_over_species.value.gene_networks[1]
           species == genes_over_species.value.species_network
       IN  \E candidates \in SUBSET iter_nodes(species.graph) :
           \E gene_node \in iter_nodes(genes.graph) :
           \E species_node \in iter_nodes(species.graph) :
               LET self == FormulaData_new(genes, species, candidates) IN
               /\ episode_candidates' = candidates
               /\ evaluation' =
                      [kind |-> "Ok",
                       gene_node |-> gene_node,
                       species_node |-> species_node,
                       sigma |-> sigma(self, gene_node, species_node),
                       epsilon |-> epsilon(self, gene_node, species_node),
                       delta |-> delta(self, gene_node, species_node),
                       delta_star |->
                           delta_star(self, gene_node, species_node),
                       delta_down |->
                           delta_down(self, gene_node, species_node)]
    /\ pc' = "called"
    /\ UNCHANGED <<gene_networks, species_network, genes_over_species, tri,
                   minted, ATOMIC_COUNTER, output, lookup>>
    /\ UNCHANGED graph_vars
    /\ UNCHANGED <<token_vars, stream>>

\* FormulaData::new(genes, species, candidates) and the call of delta_down
\* on the two roots that run makes (algorithm.rs 38-39), with the nesting
\* of its calls
CallAtRoots ==
    /\ pc = "new"
    /\ genes_over_species.kind = "Ok"
    /\ LET genes == genes_over_species.value.gene_networks[1]
           species == genes_over_species.value.species_network
       IN  \E candidates \in SUBSET iter_nodes(species.graph) :
               LET self == FormulaData_new(genes, species, candidates) IN
               /\ episode_candidates' = candidates
               /\ evaluation' =
                      [kind |-> "Ok",
                       gene_node |-> root(genes),
                       species_node |-> root(species),
                       delta_down |->
                           delta_down_call(self, root(genes),
                                           root(species)).value,
                       depth |->
                           delta_down_call(self, root(genes),
                                           root(species)).depth]
    /\ pc' = "called"
    /\ UNCHANGED <<gene_networks, species_network, genes_over_species, tri,
                   minted, ATOMIC_COUNTER, output, lookup>>
    /\ UNCHANGED graph_vars
    /\ UNCHANGED <<token_vars, stream>>

\* CancellationTokenSource::default(), its clones handed to the threads
\* that cancel, and the tokens handed to the thread that registers
Cancellers == 1 .. MaxCancellers

NewSource(tokens, limit) ==
    /\ token_data = [is_cancelled |-> FALSE,
                     on_cancel |-> PDIMarkedVector_default]
    /\ cancellers = [c \in Cancellers |->
                        [pc |-> "idle", result |-> "None",
                         iterator |-> into_iter(PDIMarkedVector_default)]]
    /\ registrar = [pc |-> "idle", tokens |-> tokens, limit |-> limit,
                    ptr |-> null_mut, calls |-> <<>>]
    /\ called = [on_cancel \in 1 .. limit |-> <<>>]

TokenFrame ==
    /\ UNCHANGED <<graph_vars, ATOMIC_COUNTER, pc, lookup, evaluation, stream>>
    /\ UNCHANGED algorithm_vars

\* cancel, up to the lock: the state is read and anything but Ok returned
CancelGetState ==
    /\ pc = "token"
    /\ \E c \in Cancellers :
           /\ cancellers[c].pc = "idle"
           /\ cancellers' =
                  IF get_state(boxed, token_data) = "Ok"
                  THEN [cancellers EXCEPT ![c].pc = "locking"]
                  ELSE [cancellers EXCEPT
                            ![c].pc = "returned",
                            ![c].result = get_state(boxed, token_data)]
    /\ UNCHANGED <<token_data, registrar, called>>
    /\ TokenFrame

\* cancel, under the lock: the state is read again, is_cancelled is stored
\* and the callbacks are swapped out
CancelLocked ==
    /\ pc = "token"
    /\ \E c \in Cancellers :
           /\ cancellers[c].pc = "locking"
           /\ IF get_state(boxed, token_data) = "IsCancelled"
              THEN /\ cancellers' = [cancellers EXCEPT
                                        ![c].pc = "returned",
                                        ![c].result = "IsCancelled"]
                   /\ UNCHANGED token_data
              ELSE LET swapped == PDIMarkedVector_swap(
                                      PDIMarkedVector_default,
                                      token_data.on_cancel)
                   IN  /\ token_data' = [is_cancelled |-> TRUE,
                                         on_cancel |-> swapped.other]
                       /\ cancellers' = [cancellers EXCEPT
                              ![c].pc = "calling",
                              ![c].iterator = into_iter(swapped.self)]
    /\ UNCHANGED <<registrar, called>>
    /\ TokenFrame

\* cancel, after the lock: one turn of the loop over to_remove; when the
\* iterator is exhausted cancel returns Ok
CancelCall ==
    /\ pc = "token"
    /\ \E c \in Cancellers :
           /\ cancellers[c].pc = "calling"
           /\ LET item == PDIMarkedIterator_next(
                              cancellers[c].iterator,
                              cancellers[c].iterator.current)
              IN  IF is_some(item.value)
                  THEN /\ called' = [called EXCEPT
                                        ![unwrap(item.value)] = Append(@, c)]
                       /\ cancellers' = [cancellers EXCEPT
                                            ![c].iterator = item.iterator]
                  ELSE /\ cancellers' = [cancellers EXCEPT
                                            ![c].pc = "returned",
                                            ![c].result = "Ok"]
                       /\ UNCHANGED called
    /\ UNCHANGED <<token_data, registrar>>
    /\ TokenFrame

\* what register returned: a registration holding the indicator's idx, or
\* the state with the callback handed back
Registration(ptr, idx) ==
    [result |-> "Ok", ptr |-> ptr, locked |-> TRUE, idx |-> idx,
     indicator |-> "held", is_cancelled |-> FALSE]

RegistrationError(ptr, state, locked) ==
    [result |-> state, ptr |-> ptr, locked |-> locked, idx |-> 0,
     indicator |-> "None", is_cancelled |-> FALSE]

\* register, up to the lock, on one of the tokens the thread holds: the
\* state is read and anything but Ok returned with the callback
RegisterGetState ==
    /\ pc = "token"
    /\ registrar.pc = "idle"
    /\ Len(registrar.calls) < registrar.limit
    /\ \E ptr \in registrar.tokens :
           registrar' =
               IF get_state(ptr, token_data) = "Ok"
               THEN [registrar EXCEPT !.pc = "locking", !.ptr = ptr]
               ELSE [registrar EXCEPT
                         !.calls = Append(@, RegistrationError(ptr,
                                        get_state(ptr, token_data), FALSE))]
    /\ UNCHANGED <<token_data, cancellers, called>>
    /\ TokenFrame

\* mutant of RegisterLocked: the state is not read again under the lock
RegisterLocked_unchecked ==
    /\ pc = "token"
    /\ registrar.pc = "locking"
    /\ LET pushed == PDIMarkedVector_push(token_data.on_cancel,
                                          Len(registrar.calls) + 1)
       IN  /\ token_data' = [token_data EXCEPT !.on_cancel = pushed.vec]
           /\ registrar' = [registrar EXCEPT
                  !.pc = "idle",
                  !.calls = Append(@, Registration(registrar.ptr,
                                                     pushed.idx))]
    /\ UNCHANGED <<cancellers, called>>
    /\ TokenFrame

\* register, under the lock: the state is read again and the callback is
\* pushed; the callback of the n-th call of register is n
RegisterLocked ==
    /\ pc = "token"
    /\ registrar.pc = "locking"
    /\ IF get_state(registrar.ptr, token_data) = "IsCancelled"
       THEN /\ registrar' = [registrar EXCEPT
                   !.pc = "idle",
                   !.calls = Append(@, RegistrationError(registrar.ptr,
                                      "IsCancelled", TRUE))]
            /\ UNCHANGED token_data
       ELSE LET pushed == PDIMarkedVector_push(token_data.on_cancel,
                                               Len(registrar.calls) + 1)
            IN  /\ token_data' = [token_data EXCEPT
                                      !.on_cancel = pushed.vec]
                /\ registrar' = [registrar EXCEPT
                       !.pc = "idle",
                       !.calls = Append(@, Registration(registrar.ptr,
                                                     pushed.idx))]
    /\ UNCHANGED <<cancellers, called>>
    /\ TokenFrame

\* CancellationTokenRegistration::unregister on a registration the thread
\* still holds; a panic ends the thread
Unregister ==
    /\ pc = "token"
    /\ registrar.pc = "idle"
    /\ \E n \in 1 .. Len(registrar.calls) :
           /\ registrar.calls[n].indicator = "held"
           /\ LET removed == PDIMarkedItemIndicator_remove(
                                 token_data.on_cancel,
                                 registrar.calls[n].idx)
              IN  /\ token_data' = [token_data EXCEPT
                                        !.on_cancel = removed.vec]
                  /\ registrar' = [registrar EXCEPT
                         !.pc = IF removed.kind = "Ok" THEN "idle"
                                ELSE "panicked",
                         !.calls[n].indicator =
                             IF removed.kind = "Ok" THEN "removed"
                             ELSE "panicked",
                         !.calls[n].is_cancelled = token_data.is_cancelled]
    /\ UNCHANGED <<cancellers, called>>
    /\ TokenFrame

\* no graph, no networks: a source, its clones and the tokens
IdleButToken ==
    /\ IdleGraph
    /\ IdleAlgorithms
    /\ lookup = [kind |-> "None"]
    /\ evaluation = [kind |-> "None"]
    /\ stream = [kind |-> "None"]
    /\ ATOMIC_COUNTER = 0
    /\ pc = "token"

\* a thread holding a token of the source and a default token registers
\* while the source and its clone are cancelled
InitRace ==
    /\ IdleButToken
    /\ NewSource({null_mut, boxed}, RaceRegistrations)

\* a thread holding a token of the source registers and unregisters while
\* the source and its clone are cancelled
InitToken ==
    /\ IdleButToken
    /\ NewSource({boxed}, MaxRegistrations)

----------------------------------------------------------------------------
(* streamz: InMemoryStream (concrete/in_memory_stream.rs).                  *)

\* the u8 values the caller writes; a fresh page holds zeroes
Bytes == {1, 2}

\* core::cmp::min
min(a, b) == IF a <= b THEN a ELSE b

\* Array::<u8>::new(length): `length` default bytes
Array_new(length) == [i \in 1 .. length |-> 0]

\* InMemoryStream::new(buffer_size)
InMemoryStream_new(buffer_size) ==
    [pages |-> <<>>, buffer_size |-> buffer_size,
     start_idx |-> 0, end_idx |-> 0]

\* get_page_for_idx_mut: the pages after the resize_with that makes the
\* page of `idx` exist
get_page_for_idx_mut(pages, buffer_size, idx) ==
    LET page_idx == idx \div buffer_size
    IN  IF page_idx >= Len(pages)
        THEN pages \o [i \in 1 .. (page_idx + 1 - Len(pages)) |->
                           Array_new(buffer_size)]
        ELSE pages

\* Vec::rotate_left leaving the pages where they are
rotate_left_in_place(pages, mid) == pages

\* Vec::rotate_left(mid): the first `mid` pages go to the back
rotate_left(pages, mid) ==
    SubSeq(pages, mid + 1, Len(pages)) \o SubSeq(pages, 1, mid)

\* Vec::truncate(len)
truncate(pages, len) ==
    IF len < Len(pages) THEN SubSeq(pages, 1, len) ELSE pages

\* slice::copy_within(from..to, dest)
copy_within(page, from, to, dest) ==
    [i \in 1 .. Len(page) |->
        IF i - 1 >= dest /\ i - 1 < dest + (to - from)
        THEN page[from + (i - 1 - dest) + 1]
        ELSE page[i]]

\* InMemoryStream::clean_it_up
clean_it_up(self) ==
    LET buffer_size == self.buffer_size
        start_page_idx == self.start_idx \div buffer_size
        rotated == rotate_left(self.pages, start_page_idx)
        start_idx == self.start_idx - start_page_idx * buffer_size
        end_idx == self.end_idx - start_page_idx * buffer_size
        end_page_idx == end_idx \div buffer_size
        pages_len == Len(rotated)
        pages == IF end_page_idx < pages_len - 3
                 THEN truncate(rotated, end_page_idx + 2)
                 ELSE rotated
    IN  IF self.start_idx = 0 /\ self.end_idx = 0 THEN self
        ELSE IF start_page_idx = 0 THEN self
        ELSE IF start_idx = end_idx
        THEN [self EXCEPT !.pages = pages, !.start_idx = 0, !.end_idx = 0]
        ELSE IF end_idx < buffer_size /\ start_idx > 0
        THEN [self EXCEPT
                 !.pages = [pages EXCEPT
                     ![1] = copy_within(pages[1], start_idx, end_idx, 0)],
                 !.start_idx = 0,
                 !.end_idx = end_idx - start_idx]
        ELSE [self EXCEPT !.pages = pages, !.start_idx = start_idx,
                          !.end_idx = end_idx]

\* the loop of read_with_cancellation: `start` runs ahead of self.start_idx,
\* `view_len` bytes of the buffer are still free, `read` were copied into it
RECURSIVE read_loop(_, _, _, _, _)
read_loop(self, start, view_len, read, ct) ==
    LET buffer_size == self.buffer_size
        in_page_idx == start % buffer_size
        to_read == min(buffer_size - in_page_idx,
                       min(self.end_idx - start, view_len))
        pages == get_page_for_idx_mut(self.pages, buffer_size, start)
        page == pages[start \div buffer_size + 1]
        page_slice == SubSeq(page, in_page_idx + 1, in_page_idx + to_read)
    IN  IF to_read = 0
        THEN [kind |-> "Ok", self |-> self, start |-> start, read |-> read]
        ELSE IF ct = "IsCancelled"
        THEN [kind |-> "IsCancelled",
              self |-> [self EXCEPT !.pages = pages],
              start |-> start + to_read, read |-> read \o page_slice]
        ELSE read_loop([self EXCEPT !.pages = pages], start + to_read,
                       view_len - to_read, read \o page_slice, ct)

\* InMemoryStream::read_with_cancellation(buffer, ct), for a buffer shorter
\* than max_read_size(): the result, the stream afterwards and the bytes
\* put into the buffer
read_with_cancellation(self, buffer_len, ct) ==
    LET looped == read_loop(self, self.start_idx, buffer_len, <<>>, ct)
    IN  IF buffer_len = 0
        THEN [kind |-> "Ok", read_bytes |-> 0, read |-> <<>>, self |-> self]
        ELSE IF self.start_idx = self.end_idx
        THEN [kind |-> "Ok", read_bytes |-> 0, read |-> <<>>, self |-> self]
        ELSE IF looped.kind = "IsCancelled"
        THEN [kind |-> "IsCancelled", read_bytes |-> 0,
              read |-> looped.read, self |-> looped.self]
        ELSE [kind |-> "Ok", read_bytes |-> Len(looped.read),
              read |-> looped.read,
              self |-> clean_it_up(
                           [looped.self EXCEPT !.start_idx = looped.start])]

\* the loop of write_with_cancellation: `end` runs ahead of self.end_idx,
\* `view` is the part of the buffer not yet written
RECURSIVE write_loop(_, _, _, _)
write_loop(self, end, view, ct) ==
    LET buffer_size == self.buffer_size
        pages == get_page_for_idx_mut(self.pages, buffer_size, end)
        page_idx == end \div buffer_size
        in_page_idx == end % buffer_size
        to_write == min(buffer_size - in_page_idx, Len(view))
        written ==
            [pages EXCEPT ![page_idx + 1] =
                [i \in 1 .. buffer_size |->
                    IF i - 1 >= in_page_idx /\ i - 1 < in_page_idx + to_write
                    THEN view[i - in_page_idx]
                    ELSE pages[page_idx + 1][i]]]
    IN  IF to_write = 0
        THEN [kind |-> "Ok", self |-> [self EXCEPT !.pages = pages],
              end |-> end]
        ELSE IF ct = "IsCancelled"
        THEN [kind |-> "IsCancelled",
              self |-> [self EXCEPT !.pages = written],
              end |-> end + to_write]
        ELSE write_loop([self EXCEPT !.pages = written], end + to_write,
                        SubSeq(view, to_write + 1, Len(view)), ct)

\* InMemoryStream::write_with_cancellation(buffer, ct), for a buffer shorter
\* than max_write_size(): the result and the stream afterwards
write_with_cancellation(self, buffer, ct) ==
    LET looped == write_loop(self, self.end_idx, buffer, ct)
    IN  IF Len(buffer) = 0
        THEN [kind |-> "Ok", self |-> self]
        ELSE IF looped.kind = "IsCancelled"
        THEN [kind |-> "IsCancelled", self |-> looped.self]
        ELSE [kind |-> "Ok",
              self |-> [looped.self EXCEPT !.end_idx = looped.end]]

\* what get_state gives for the CancellationToken::default() that
\* stream.write and stream.read hand on
CancellationToken_default == "NotCancellable"

\* the buffers handed to write
Buffers ==
    UNION {[1 .. len -> Bytes] : len \in 0 .. MaxBuffer}

\* no graph, no networks, no token: a stream built with one of the page
\* sizes, and the caller's total_write and total_read, both empty
InitStream ==
    /\ IdleGraph
    /\ IdleAlgorithms
    /\ lookup = [kind |-> "None"]
    /\ evaluation = [kind |-> "None"]
    /\ token_data = [kind |-> "None"]
    /\ cancellers = <<>>
    /\ registrar = [pc |-> "None"]
    /\ called = <<>>
    /\ ATOMIC_COUNTER = 0
    /\ pc = "stream"
    /\ \E buffer_size \in 2 .. MaxPageSize :
           stream = [kind |-> "InMemoryStream",
                     self |-> InMemoryStream_new(buffer_size),
                     total_write |-> <<>>,
                     total_read |-> <<>>,
                     last |-> [op |-> "build"]]

StreamFrame ==
    /\ UNCHANGED <<graph_vars, ATOMIC_COUNTER, pc, lookup, evaluation>>
    /\ UNCHANGED algorithm_vars
    /\ UNCHANGED token_vars

\* stream.write(buffer); the caller appends the buffer to total_write when
\* the call succeeded
Write ==
    /\ pc = "stream"
    /\ \E buffer \in Buffers :
           /\ Len(stream.total_write) + Len(buffer) <= MaxWritten
           /\ LET written == write_with_cancellation(
                                 stream.self, buffer,
                                 CancellationToken_default)
              IN  stream' =
                      [stream EXCEPT
                          !.self = written.self,
                          !.total_write =
                              IF written.kind = "Ok" THEN @ \o buffer ELSE @,
                          !.last = [op |-> "write", kind |-> written.kind,
                                    buffer_len |-> Len(buffer)]]
    /\ StreamFrame

\* stream.read(buffer); the caller appends buffer[0..read_bytes] to
\* total_read when the call succeeded
Read ==
    /\ pc = "stream"
    /\ \E buffer_len \in 0 .. MaxBuffer :
           LET done == read_with_cancellation(
                           stream.self, buffer_len,
                           CancellationToken_default)
           IN  stream' =
                   [stream EXCEPT
                       !.self = done.self,
                       !.total_read =
                           IF done.kind = "Ok"
                           THEN @ \o SubSeq(done.read, 1, done.read_bytes)
                           ELSE @,
                       !.last = [op |-> "read", kind |-> done.kind,
                                 buffer_len |-> buffer_len,
                                 read_bytes |-> done.read_bytes]]
    /\ StreamFrame

NextStream == Write \/ Read

SpecStream == InitStream /\ [][NextStream]_vars

Next == PushArrow \/ FromDto \/ FromGraphAndTaxa

NextGraph == PushArrowAscending \/ FromDto \/ FromGraphAndTaxa

NextLookup ==
    PushArrowAscending \/ FromDto \/ GetSuccessors \/ GetPredecessors

NextEq == PushArrowFirst \/ PushArrowSecond \/ FromDto \/ Keep

NextScenario ==
    PushScenarioArrow \/ FromDto \/ FromGraphAndTaxa \/ FromUnchecked

NextTribool == And \/ Or \/ Neg \/ IsCertain \/ IsPossible

NextIds == GenerateNext \/ GenerateNextBlock

NextGenes ==
    PushGeneNetwork \/ GenerateNextBlock \/ BuildSpeciesNetwork \/ New

NextEpisode == PushGeneTree \/ BuildSpeciesTree \/ New \/ Run

Spec == Init /\ [][Next]_vars

SpecGraph == InitGraph /\ [][NextGraph]_vars

SpecEq == InitEq /\ [][NextEq]_vars

SpecLookup == InitGraph /\ [][NextLookup]_vars

SpecTribool == InitTribool /\ [][NextTribool]_vars

SpecIds == InitIds /\ [][NextIds]_vars

SpecGenes == InitGenes /\ [][NextGenes]_vars

SpecEpisode == InitEpisode /\ [][NextEpisode]_vars

NextFormulas == BuildGeneTree \/ BuildSpeciesTreeOfShape \/ New \/ Call

SpecFormulas == InitFormulas /\ [][NextFormulas]_vars

NextNesting ==
    BuildGeneTree \/ BuildSpeciesTreeOfShape \/ New \/ CallAtRoots

SpecNesting == InitFormulas /\ [][NextNesting]_vars

NextRace ==
    \/ RegisterGetState \/ RegisterLocked
    \/ CancelGetState \/ CancelLocked \/ CancelCall

NextToken ==
    \/ RegisterGetState \/ RegisterLocked \/ Unregister
    \/ CancelGetState \/ CancelLocked \/ CancelCall

SpecRace == InitRace /\ [][NextRace]_vars

SpecToken == InitToken /\ [][NextToken]_vars

SpecScenario == InitScenario /\ [][NextScenario]_vars

----------------------------------------------------------------------------
(* What the properties are stated in: the arrows of the DTO as a relation. *)

ArrowSet(value) == {value.arrows[i] : i \in 1 .. Len(value.arrows)}

Nodes(value) == 0 .. (value.number_of_nodes - 1)

Range(list) == {list[i] : i \in 1 .. Len(list)}

OutsideOfNodesRange(arrow, number_of_nodes) ==
    ~(source(arrow) \in 0 .. (number_of_nodes - 1)
        /\ target(arrow) \in 0 .. (number_of_nodes - 1))

\* positions of the arrows that repeat an earlier arrow / are out of range
RepeatPositions(value) ==
    {j \in 1 .. Len(value.arrows) :
        \E i \in 1 .. (j - 1) : value.arrows[i] = value.arrows[j]}

OutsidePositions(value) ==
    {j \in 1 .. Len(value.arrows) :
        OutsideOfNodesRange(value.arrows[j], value.number_of_nodes)}

Min(set) == CHOOSE x \in set : \A y \in set : x <= y

\* the nodes reached from `from` along the pairs of `relation`
RECURSIVE Reached(_, _)
Reached(from, relation) ==
    LET next == from \cup {e[2] : e \in {x \in relation : x[1] \in from}}
    IN  IF next = from THEN from ELSE Reached(next, relation)

Inverse(relation) == {<<e[2], e[1]>> : e \in relation}

HasDirectedCycle(value) ==
    \E v \in Nodes(value) :
        v \in Reached({e[2] : e \in {x \in ArrowSet(value) : x[1] = v}},
                      ArrowSet(value))

\* the nodes of a directed cycle
OnCycle(value) ==
    {v \in Nodes(value) :
        v \in Reached({e[2] : e \in {x \in ArrowSet(value) : x[1] = v}},
                      ArrowSet(value))}

UndirectedFromZero(value) ==
    Reached({0}, ArrowSet(value) \cup Inverse(ArrowSet(value)))

InDegree(value, v) == Cardinality({e \in ArrowSet(value) : e[2] = v})
OutDegree(value, v) == Cardinality({e \in ArrowSet(value) : e[1] = v})

StrictlyAscending(list) ==
    \A i \in 1 .. (Len(list) - 1) : list[i] < list[i + 1]

Built == pc # "input" /\ result.kind = "Ok"

----------------------------------------------------------------------------
(* C1.  Original statement: whenever 1 <= N <= 2^22 and the arrow list     *)
(* holds the same ordered pair at two positions, from_dto returns          *)
(* MultipleParallelArrows carrying a repeated pair, whatever else the list *)
(* contains (out-of-range arrows included).                                *)
C1_DuplicateAlwaysWins ==
    (/\ pc = "built"
     /\ dto.number_of_nodes \in 1 .. max_size
     /\ RepeatPositions(dto) # {})
    => /\ result.kind = "MultipleParallelArrows"
       /\ \E j \in RepeatPositions(dto) : result.arrow = dto.arrows[j]

(* C1, as amended: the arrows are examined in list order and the first     *)
(* arrow that repeats an earlier one or has an endpoint outside [0, N)     *)
(* decides: with a repeated pair in the list, from_dto returns             *)
(* MultipleParallelArrows carrying the first repeated pair when no arrow   *)
(* before that second occurrence is out of range, and otherwise            *)
(* ArrowOutsideOfNodesRange carrying the first out-of-range arrow.         *)
C1_FirstOffendingArrowWins ==
    (/\ pc = "built"
     /\ dto.number_of_nodes \in 1 .. max_size
     /\ RepeatPositions(dto) # {})
    => LET j == Min(RepeatPositions(dto))
           before == {k \in OutsidePositions(dto) : k < j}
       IN  IF before = {}
           THEN result = [kind |-> "MultipleParallelArrows",
                          arrow |-> dto.arrows[j]]
           ELSE result = [kind |-> "ArrowOutsideOfNodesRange",
                          arrow |-> dto.arrows[Min(before)]]

\* a repeated pair wins although the list also holds an out-of-range arrow
C1_Witness ==
    /\ pc = "built"
    /\ result.kind = "MultipleParallelArrows"
    /\ \E k \in OutsidePositions(dto) : k > Min(RepeatPositions(dto))

(* C2.  For every accepted input the acyclic flag is true exactly when the *)
(* arrows contain no directed cycle (a self-loop is one), wherever the     *)
(* cycle lies.                                                             *)
C2_AcyclicIffNoCycle ==
    Built => (result.graph.basic_properties.acyclic <=> ~HasDirectedCycle(dto))

\* a cycle that is reachable neither from node 0 nor from the root
C2_Witness ==
    /\ Built
    /\ ~result.graph.basic_properties.acyclic
    /\ result.graph.basic_properties.rooted
    /\ OnCycle(dto) \cap Reached({0, unwrap(result.graph.root_node)},
                                 ArrowSet(dto)) = {}

(* C3.  For every accepted input the connected flag is true exactly when   *)
(* every node is reached from node 0 with the arrows followed in both      *)
(* directions; when the graph is rooted and acyclic the traversal that is  *)
(* skipped would have answered true as well.                               *)
C3_ConnectedIffUndirectedReach ==
    Built =>
        /\ result.graph.basic_properties.connected
               <=> (UndirectedFromZero(dto) = Nodes(dto))
        /\ (result.graph.basic_properties.rooted
              /\ result.graph.basic_properties.acyclic)
               => verify_connected(result.graph.number_of_nodes,
                                   result.graph.predecessors_map,
                                   result.graph.successors_map)

\* the shortcut is taken on a graph whose root is not node 0
C3_Witness ==
    /\ Built
    /\ result.graph.basic_properties.rooted
    /\ result.graph.basic_properties.acyclic
    /\ result.graph.root_node # Some(0)
    /\ result.graph.number_of_nodes >= 3

(* C4.  Whenever from_dto succeeds the node count is N, the nodes are      *)
(* 0..N-1, t is a successor of s exactly when (s, t) is an arrow exactly   *)
(* when s is a predecessor of t, and every adjacency list is strictly      *)
(* ascending.                                                              *)
C4_AdjacencyIsTheArrows ==
    Built =>
        LET graph == result.graph IN
        /\ graph.number_of_nodes = dto.number_of_nodes
        /\ iter_nodes(graph) = Nodes(dto)
        /\ DOMAIN graph.successors_map = Nodes(dto)
        /\ DOMAIN graph.predecessors_map = Nodes(dto)
        /\ \A s, t \in Nodes(dto) :
               /\ t \in Range(get_successors(graph, s))
                      <=> <<s, t>> \in ArrowSet(dto)
               /\ s \in Range(get_predecessors(graph, t))
                      <=> <<s, t>> \in ArrowSet(dto)
        /\ \A v \in Nodes(dto) :
               /\ StrictlyAscending(get_successors(graph, v))
               /\ StrictlyAscending(get_predecessors(graph, v))

\* arrows given out of order come out sorted
C4_Witness ==
    /\ Built
    /\ \E i \in 1 .. (Len(dto.arrows) - 1) :
           /\ source(dto.arrows[i]) = source(dto.arrows[i + 1])
           /\ target(dto.arrows[i]) > target(dto.arrows[i + 1])
    /\ \E v \in Nodes(dto) : Len(get_successors(result.graph, v)) = 2

(* C5.  For every accepted input: rooted holds and root = r exactly when r *)
(* is the only node with no predecessor (otherwise rooted is false and the *)
(* root unset); leaves are the nodes with no successor; binary holds       *)
(* exactly when no node has more than 2 predecessors or 2 successors; tree *)
(* holds exactly when no node has more than 1 predecessor.                 *)
C5_DerivedProperties ==
    Built =>
        LET graph == result.graph
            props == result.graph.basic_properties
            sources == {v \in Nodes(dto) : InDegree(dto, v) = 0}
        IN
        /\ props.rooted <=> Cardinality(sources) = 1
        /\ \A r \in Nodes(dto) : graph.root_node = Some(r) <=> sources = {r}
        /\ Cardinality(sources) # 1 => graph.root_node = None
        /\ graph.leaves = {v \in Nodes(dto) : OutDegree(dto, v) = 0}
        /\ props.binary <=>
               \A v \in Nodes(dto) :
                   InDegree(dto, v) <= 2 /\ OutDegree(dto, v) <= 2
        /\ props.tree <=> \A v \in Nodes(dto) : InDegree(dto, v) <= 1

\* two nodes without predecessors: not rooted, the root unset
C5_Witness ==
    /\ Built
    /\ Cardinality({v \in Nodes(dto) : InDegree(dto, v) = 0}) >= 2
    /\ result.graph.root_node = None
    /\ ~result.graph.basic_properties.binary

(* C6.  from_dto returns EmptyGraph for every N <= 0 and TooBigGraph for   *)
(* every N > 2^22, whatever the arrows, and neither of them for            *)
(* 1 <= N <= 2^22.                                                         *)
C6_SizeChecks ==
    pc = "built" =>
        /\ dto.number_of_nodes <= 0 <=> result.kind = "EmptyGraph"
        /\ dto.number_of_nodes > max_size <=> result.kind = "TooBigGraph"

\* N = 2^22 passes the size checks: the call goes on to the arrows
C6_Witness ==
    /\ pc = "built"
    /\ dto.number_of_nodes = max_size
    /\ result.kind = "ArrowOutsideOfNodesRange"

\* N = 2^22 + 1 with a repeated arrow in the list
C6_WitnessTooBig ==
    /\ pc = "built"
    /\ dto.number_of_nodes = max_size + 1
    /\ RepeatPositions(dto) # {}
    /\ result.kind = "TooBigGraph"

(* C7.  DirectedGraph equality is reflexive and does not depend on how the *)
(* graph was built: two graphs built with the same N from arrow lists that *)
(* hold the same set of arrows compare equal, have equal hashes and equal  *)
(* acyclic/connected/rooted/binary flags while their ids differ; two       *)
(* graphs whose node counts or arrow sets differ compare unequal.          *)
C7_StructuralEquality ==
    (Built /\ previous # <<>>) =>
        LET first == previous[1].result.graph
            second == result.graph
            same == /\ previous[1].dto.number_of_nodes = dto.number_of_nodes
                    /\ ArrowSet(previous[1].dto) = ArrowSet(dto)
        IN
        /\ DirectedGraphEq(first, first)
        /\ DirectedGraphEq(second, second)
        /\ first.id # second.id
        /\ DirectedGraphEq(first, second) <=> same
        /\ DirectedGraphEq(second, first) <=> same
        /\ same =>
               /\ first.hash_value = second.hash_value
               /\ first.basic_properties = second.basic_properties

\* the same three arrows, given in another order the second time
C7_Witness ==
    /\ Built
    /\ previous # <<>>
    /\ ArrowSet(previous[1].dto) = ArrowSet(dto)
    /\ previous[1].dto.arrows # dto.arrows
    /\ Len(dto.arrows) >= 2
    /\ DirectedGraphEq(previous[1].result.graph, result.graph)

(* C8.  The network validation reports the first failing check in the      *)
(* order acyclic, rooted, binary.                                          *)
C8_FirstFailingCheck ==
    pc = "validated" =>
        LET props == result.graph.basic_properties IN
        /\ ~props.acyclic => network.kind = "NotAcyclic"
        /\ (props.acyclic /\ ~props.rooted) => network.kind = "NotRooted"
        /\ (props.acyclic /\ props.rooted /\ ~props.binary)
               => network.kind = "NotBinary"

\* a graph failing the three checks at once
C8_Witness ==
    /\ pc = "validated"
    /\ ~result.graph.basic_properties.acyclic
    /\ ~result.graph.basic_properties.rooted
    /\ ~result.graph.basic_properties.binary
    /\ network.kind = "NotAcyclic"

(* C9.  The network validation succeeds for every graph that is acyclic,   *)
(* rooted and binary, whatever the taxon mapping (the single-node graph    *)
(* and a graph whose leaf has two predecessors included).                  *)
C9_AcceptsEveryRootedBinaryDag ==
    (/\ pc = "validated"
     /\ result.graph.basic_properties.acyclic
     /\ result.graph.basic_properties.rooted
     /\ result.graph.basic_properties.binary)
    => network.kind = "Ok"

(* C10.  In every validated network each node other than the root          *)
(* satisfies exactly one of is_leaf, is_tree_node, is_reticulation_node,   *)
(* is_cross_node.                                                          *)
Roles(self, node) ==
    {role \in {"leaf", "tree", "reticulation", "cross"} :
        \/ role = "leaf" /\ is_leaf(self, node)
        \/ role = "tree" /\ is_tree_node(self, node)
        \/ role = "reticulation" /\ is_reticulation_node(self, node)
        \/ role = "cross" /\ is_cross_node(self, node)}

----------------------------------------------------------------------------
----------------------------------------------------------------------------
(* C12.  As stated: for N = 6 and the arrows (0,1) (1,2) (1,3) (2,4) (3,5) *)
(* (2,5), construction succeeds with acyclic, rooted and binary true and   *)
(* leaves {4, 5}, and in the network over it node 5 has in-degree 2 and    *)
(* out-degree 1 and is a reticulation node.                                *)
ScenarioBuilt ==
    /\ pc # "input"
    /\ dto.number_of_nodes = 6
    /\ ArrowSet(dto) = ScenarioArrows

C12_NodeFiveIsReticulation ==
    ScenarioBuilt =>
        /\ result.kind = "Ok"
        /\ result.graph.basic_properties.acyclic
        /\ result.graph.basic_properties.rooted
        /\ result.graph.basic_properties.binary
        /\ result.graph.leaves = {4, 5}
        /\ pc \in {"validated", "unchecked"} =>
               /\ network.kind \in {"Ok", "Unchecked"}
               /\ Len(get_predecessors(network.network.graph, 5)) = 2
               /\ Len(get_successors(network.network.graph, 5)) = 1
               /\ is_reticulation_node(network.network, 5)

(* C12, amended.  For that graph construction succeeds with acyclic,       *)
(* rooted and binary true and leaves {4, 5}; node 5 has in-degree 2 and    *)
(* out-degree 0, so in a network over the graph it is a leaf and not a     *)
(* reticulation node.                                                      *)
C12_NodeFiveIsALeafOfInDegreeTwo ==
    ScenarioBuilt =>
        /\ result.kind = "Ok"
        /\ result.graph.basic_properties.acyclic
        /\ result.graph.basic_properties.rooted
        /\ result.graph.basic_properties.binary
        /\ result.graph.leaves = {4, 5}
        /\ Len(get_predecessors(result.graph, 5)) = 2
        /\ Len(get_successors(result.graph, 5)) = 0
        /\ pc = "unchecked" =>
               /\ is_leaf(network.network, 5)
               /\ ~is_reticulation_node(network.network, 5)
               /\ Roles(network.network, 5) = {"leaf"}

\* the six arrows pushed in the order of the test, the network built
C12_Witness ==
    /\ pc = "unchecked"
    /\ dto = [number_of_nodes |-> 6,
              arrows |-> <<<<0, 1>>, <<1, 2>>, <<1, 3>>, <<2, 4>>, <<3, 5>>,
                           <<2, 5>>>>]
    /\ is_leaf(network.network, 5)

----------------------------------------------------------------------------
(* C18.  and is the minimum and or is the maximum over FALSE < UNKNOWN <   *)
(* TRUE, both commutative and associative, with FALSE absorbing and TRUE   *)
(* the identity for and, TRUE absorbing and FALSE the identity for or;     *)
(* neg swaps TRUE and FALSE and fixes UNKNOWN; is_certain holds exactly    *)
(* for TRUE; is_possible holds exactly for TRUE and UNKNOWN.               *)
C18_TruthTables ==
    /\ tri.op = "and" =>
           /\ tri.value = IF tri.x <= tri.y THEN tri.x ELSE tri.y
           /\ tri.value = and(tri.y, tri.x)
           /\ and(tri.value, tri.z) = and(tri.x, and(tri.y, tri.z))
           /\ tri.x = TriBool_FALSE => tri.value = TriBool_FALSE
           /\ tri.x = TriBool_TRUE => tri.value = tri.y
           /\ (tri.x = TriBool_UNKNOWN /\ tri.y = TriBool_TRUE)
                  => tri.value = TriBool_UNKNOWN
    /\ tri.op = "or" =>
           /\ tri.value = IF tri.x >= tri.y THEN tri.x ELSE tri.y
           /\ tri.value = or(tri.y, tri.x)
           /\ or(tri.value, tri.z) = or(tri.x, or(tri.y, tri.z))
           /\ tri.x = TriBool_TRUE => tri.value = TriBool_TRUE
           /\ tri.x = TriBool_FALSE => tri.value = tri.y
           /\ (tri.x = TriBool_UNKNOWN /\ tri.y = TriBool_FALSE)
                  => tri.value = TriBool_UNKNOWN
    /\ tri.op = "neg" =>
           /\ tri.x = TriBool_TRUE => tri.value = TriBool_FALSE
           /\ tri.x = TriBool_FALSE => tri.value = TriBool_TRUE
           /\ tri.x = TriBool_UNKNOWN => tri.value = TriBool_UNKNOWN
    /\ tri.op = "is_certain" => (tri.holds <=> tri.x = TriBool_TRUE)
    /\ tri.op = "is_possible" =>
           (tri.holds <=> tri.x \in {TriBool_TRUE, TriBool_UNKNOWN})

\* UNKNOWN.and(TRUE) has been computed
C18_Witness ==
    /\ tri.op = "and"
    /\ tri.x = TriBool_UNKNOWN
    /\ tri.y = TriBool_TRUE
    /\ tri.value = TriBool_UNKNOWN

----------------------------------------------------------------------------
(* C19.  As stated: is_possible(x) = ~is_certain(x.neg()) fails for some   *)
(* value x.                                                                *)
C19_IdentityFailsForSomeValue ==
    \E x \in TriBools \cup {tri.x} :
        is_possible(x) # ~is_certain(neg(x))

(* C19, amended.  is_possible(x) = ~is_certain(x.neg()) for every value x, *)
(* UNKNOWN included.                                                       *)
C19_IdentityHolds ==
    tri.op = "is_possible" => (tri.holds <=> ~is_certain(neg(tri.x)))

\* UNKNOWN.is_possible() has been computed
C19_Witness ==
    /\ tri.op = "is_possible"
    /\ tri.x = TriBool_UNKNOWN
    /\ tri.holds

----------------------------------------------------------------------------
(* C20.  Any two calls of generate_next, on one thread or on different     *)
(* threads in any interleaving, return different ids.                      *)
MintedCalls == {<<t, i>> : t \in Threads, i \in 1 .. MaxIds + 1}

C20_IdsPairwiseDistinct ==
    \A a, b \in {c \in MintedCalls : c[2] <= Len(minted.ids[c[1]])} :
        a # b => minted.ids[a[1]][a[2]] # minted.ids[b[1]][b[2]]

----------------------------------------------------------------------------
(* C13.  GenesOverSpecies::new reports the first failing condition in the  *)
(* order EmptyGeneNetworks, SpeciesContainsTaxaDuplicates, IncorrectTaxa   *)
(* (a gene network at any position has a taxon not among the species       *)
(* taxa), DuplicatedIds: incorrect taxa anywhere in the list win over two  *)
(* gene networks that share an id.                                         *)
GeneIds == {gene_networks[i].id : i \in 1 .. Len(gene_networks)}

SpeciesLeavesShareATaxon ==
    \E a, b \in DOMAIN unwrap(species_network).taxa :
        /\ a # b
        /\ unwrap(species_network).taxa[a] = unwrap(species_network).taxa[b]

SomeGeneHasIncorrectTaxa ==
    \E i \in 1 .. Len(gene_networks) :
        ~(values(gene_networks[i].taxa)
              \subseteq values(unwrap(species_network).taxa))

TwoGenesShareAnId == Cardinality(GeneIds) < Len(gene_networks)

C13_ChecksInOrder ==
    pc = "new" =>
        genes_over_species.kind =
            IF gene_networks = <<>> THEN "EmptyGeneNetworks"
            ELSE IF SpeciesLeavesShareATaxon
            THEN "SpeciesContainsTaxaDuplicates"
            ELSE IF SomeGeneHasIncorrectTaxa THEN "IncorrectTaxa"
            ELSE IF TwoGenesShareAnId THEN "DuplicatedIds"
            ELSE "Ok"

----------------------------------------------------------------------------
(* C14.  Whenever GenesOverSpecies::new succeeds, the gene list is not     *)
(* empty, no two species leaves carry the same taxon, the taxa of every    *)
(* gene network are among the species taxa, the lookup by the id of a      *)
(* listed gene network returns that network, and the lookup by any other   *)
(* id returns None.                                                        *)
ProbedIds ==
    (-1 .. 2 * MaxGenes + 3)
        \cup {unwrap(species_network).id, unwrap(species_network).graph.id}
        \cup {gene_networks[i].graph.id : i \in 1 .. Len(gene_networks)}

C14_SuccessInvariants ==
    (pc = "new" /\ genes_over_species.kind = "Ok") =>
        /\ gene_networks # <<>>
        /\ genes_over_species.value.gene_networks = gene_networks
        /\ ~SpeciesLeavesShareATaxon
        /\ ~SomeGeneHasIncorrectTaxa
        /\ \A i \in 1 .. Len(gene_networks) :
               get_gene_network_by_id(genes_over_species.value,
                                      gene_networks[i].id)
                   = Some(gene_networks[i])
        /\ \A id \in ProbedIds \ GeneIds :
               get_gene_network_by_id(genes_over_species.value, id) = None

\* three gene networks were accepted, one of them labelled, over a species
\* network with two labelled leaves
C14_Witness ==
    /\ pc = "new"
    /\ genes_over_species.kind = "Ok"
    /\ Len(gene_networks) = 3
    /\ \E i \in 1 .. 3 : gene_networks[i].taxa # <<>>
    /\ Cardinality(DOMAIN unwrap(species_network).taxa) = 2
    /\ get_gene_network_by_id(genes_over_species.value, gene_networks[3].id)
           = Some(gene_networks[3])

----------------------------------------------------------------------------
(* C15.  For every GenesOverSpecies that passed validation and every set   *)
(* of episode candidates, the algorithm runs to a result: no assertion     *)
(* fails and nothing else aborts.                                          *)
C15_RunNeverAborts ==
    pc = "run" => output.kind = "Ok"

----------------------------------------------------------------------------
(* C16.  The output maps the id of every gene network of the input, and    *)
(* nothing else, to a boolean that is true exactly when                    *)
(* delta_down(gene root, species root) is TRUE for that gene network.      *)
RootVerdict(gene_network) ==
    delta_down(FormulaData_new(gene_network, unwrap(species_network),
                               episode_candidates),
               root(gene_network), root(unwrap(species_network)))

C16_OneVerdictPerGeneNetwork ==
    (pc = "run" /\ output.kind = "Ok") =>
        /\ DOMAIN output.result = GeneIds
        /\ Cardinality(DOMAIN output.result) = Len(gene_networks)
        /\ \A i \in 1 .. Len(gene_networks) :
               output.result[gene_networks[i].id]
                   <=> RootVerdict(gene_networks[i]) = TriBool_TRUE

\* two gene networks, one with verdict TRUE and one with verdict UNKNOWN
C16_Witness ==
    /\ pc = "run"
    /\ output.kind = "Ok"
    /\ Len(gene_networks) = 2
    /\ \E i, j \in 1 .. 2 :
           /\ RootVerdict(gene_networks[i]) = TriBool_TRUE
           /\ output.result[gene_networks[i].id]
           /\ RootVerdict(gene_networks[j]) = TriBool_UNKNOWN
           /\ ~output.result[gene_networks[j].id]

----------------------------------------------------------------------------
(* C17.  A gene tree that is a root with two leaves, each labelled with    *)
(* the taxon of the corresponding leaf of a species tree of the same       *)
(* shape, run with the species root as the only episode candidate, gets    *)
(* the output true.                                                        *)
IsLabelledCherry(net) ==
    /\ net.graph.number_of_nodes = 3
    /\ get_successors(net.graph, root(net)) = <<1, 2>>
    /\ DOMAIN net.taxa = {1, 2}

LeavesCorrespond(gene_network, species) ==
    /\ IsLabelledCherry(gene_network)
    /\ IsLabelledCherry(species)
    /\ \/ /\ gene_network.taxa[1] = species.taxa[1]
          /\ gene_network.taxa[2] = species.taxa[2]
       \/ /\ gene_network.taxa[1] = species.taxa[2]
          /\ gene_network.taxa[2] = species.taxa[1]

C17_MatchingCherryIsFeasible ==
    (pc = "run"
        /\ episode_candidates = {root(unwrap(species_network))}) =>
        \A i \in 1 .. Len(gene_networks) :
            LeavesCorrespond(gene_networks[i], unwrap(species_network)) =>
                /\ RootVerdict(gene_networks[i]) = TriBool_TRUE
                /\ Len(gene_networks) = 1 => output.kind = "Ok"
                /\ output.kind = "Ok" => output.result[gene_networks[i].id]

\* the gene tree alone, its leaves labelled as the species leaves in the
\* other order
C17_Witness ==
    /\ pc = "run"
    /\ episode_candidates = {root(unwrap(species_network))}
    /\ Len(gene_networks) = 1
    /\ LeavesCorrespond(gene_networks[1], unwrap(species_network))
    /\ gene_networks[1].taxa[1] = unwrap(species_network).taxa[2]
    /\ output.kind = "Ok"
    /\ output.result[gene_networks[1].id]

----------------------------------------------------------------------------
\* C30: for a graph of N nodes get_successors(v) and get_predecessors(v)
\* return the empty slice, without panicking, for every index outside
\* [0, N), the index N included, and the node's adjacency list inside it.
C30_LookupOutsideIsEmpty ==
    lookup.kind # "None" =>
        LET graph == result.graph
            inside == lookup.node \in 0 .. (graph.number_of_nodes - 1)
            map == IF lookup.kind = "get_successors" THEN graph.successors_map
                   ELSE graph.predecessors_map
        IN  /\ lookup.slice # IndexOutOfBounds
            /\ lookup.slice = IF inside THEN map[lookup.node] ELSE <<>>

----------------------------------------------------------------------------
\* the FormulaData of the last call
CalledGenes == genes_over_species.value.gene_networks[1]

CalledSpecies == genes_over_species.value.species_network

CalledData == FormulaData_new(CalledGenes, CalledSpecies, episode_candidates)

\* C25: sigma(g, s) always returns TRUE or FALSE; on two leaves it is TRUE
\* iff g carries no taxon or g's taxon equals s's taxon (FALSE for a
\* labelled g against an unlabelled s); it is FALSE when exactly one of them
\* is a leaf; on two internal nodes it is TRUE iff the straight or the
\* crossed pairing of their children has delta_down = TRUE on both pairs.
C25_SigmaIsDecided ==
    evaluation.kind = "Ok" =>
        LET g == evaluation.gene_node
            s == evaluation.species_node
            g_leaf == g \in CalledGenes.graph.leaves
            s_leaf == s \in CalledSpecies.graph.leaves
            gsucc == CalledGenes.graph.successors_map[g]
            ssucc == CalledSpecies.graph.successors_map[s]
            both(g1, s1, g2, s2) ==
                /\ delta_down(CalledData, g1, s1) = TriBool_TRUE
                /\ delta_down(CalledData, g2, s2) = TriBool_TRUE
        IN  /\ evaluation.sigma \in {TriBool_TRUE, TriBool_FALSE}
            /\ g_leaf /\ s_leaf =>
                   (evaluation.sigma = TriBool_TRUE <=>
                       \/ g \notin DOMAIN CalledGenes.taxa
                       \/ /\ s \in DOMAIN CalledSpecies.taxa
                          /\ CalledGenes.taxa[g] = CalledSpecies.taxa[s])
            /\ g_leaf # s_leaf => evaluation.sigma = TriBool_FALSE
            /\ ~g_leaf /\ ~s_leaf /\ Len(gsucc) = 2 /\ Len(ssucc) = 2 =>
                   (evaluation.sigma = TriBool_TRUE <=>
                       \/ both(gsucc[1], ssucc[1], gsucc[2], ssucc[2])
                       \/ both(gsucc[1], ssucc[2], gsucc[2], ssucc[1]))

----------------------------------------------------------------------------
\* a gene node with at most one predecessor that is not a leaf
CalledGeneIsTreeNode ==
    /\ Len(CalledGenes.graph.predecessors_map[evaluation.gene_node]) <= 1
    /\ evaluation.gene_node \notin CalledGenes.graph.leaves

\* C26: delta(g, s) is FALSE whenever g is not a tree node; when g is a
\* tree node it is delta_star(g, s) if s is an episode candidate and
\* delta_star(g, s) AND UNKNOWN otherwise (a call of delta_star that aborts
\* aborts delta); so delta(g, s) is never TRUE for a species node that is
\* not an episode candidate.
C26_DeltaWeakensOffCandidates ==
    evaluation.kind = "Ok" =>
        /\ ~CalledGeneIsTreeNode => evaluation.delta = TriBool_FALSE
        /\ CalledGeneIsTreeNode =>
               evaluation.delta =
                   IF evaluation.delta_star = Panic THEN Panic
                   ELSE IF evaluation.species_node \in episode_candidates
                   THEN evaluation.delta_star
                   ELSE AND_TABLE[evaluation.delta_star + 1]
                                 [TriBool_UNKNOWN + 1]
        /\ evaluation.species_node \notin episode_candidates =>
               evaluation.delta # TriBool_TRUE

\* delta was called on a tree node and a species node that is not a
\* candidate, delta_star is TRUE there and delta returned UNKNOWN
C26_Witness ==
    /\ evaluation.kind = "Ok"
    /\ CalledGeneIsTreeNode
    /\ evaluation.species_node \notin episode_candidates
    /\ evaluation.delta_star = TriBool_TRUE
    /\ evaluation.delta = TriBool_UNKNOWN

----------------------------------------------------------------------------
\* the or of a set of TriBool values: the greatest of them
OrOfSet(set) ==
    IF TriBool_TRUE \in set THEN TriBool_TRUE
    ELSE IF TriBool_UNKNOWN \in set THEN TriBool_UNKNOWN
    ELSE TriBool_FALSE

CalledSpeciesSuccessors ==
    Range(CalledSpecies.graph.successors_map[evaluation.species_node])

\* what delta_down returns on the gene node of the call at the successors of
\* its species node
BelowCalled ==
    {delta_down(CalledData, evaluation.gene_node, successor) :
         successor \in CalledSpeciesSuccessors}

CalledSpeciesIsLeaf == evaluation.species_node \in CalledSpecies.graph.leaves

\* C27 (as stated): delta_down(g, s) equals epsilon(g, s) when s is a
\* species leaf; when s is a non-leaf episode candidate each successor's
\* delta_down is collapsed by is_possible, TRUE and UNKNOWN becoming UNKNOWN
\* and FALSE staying FALSE, before being ORed in, so delta_down(g, s) = TRUE
\* only if epsilon(g, s) = TRUE.
C27_CandidateHidesCertainMatchBelow ==
    evaluation.kind = "Ok" =>
        /\ CalledSpeciesIsLeaf => evaluation.delta_down = evaluation.epsilon
        /\ ~CalledSpeciesIsLeaf
              /\ evaluation.species_node \in episode_candidates
              /\ Panic \notin BelowCalled \cup {evaluation.epsilon} =>
               /\ evaluation.delta_down =
                      OrOfSet({evaluation.epsilon} \cup
                              {IF below = TriBool_FALSE THEN TriBool_FALSE
                               ELSE TriBool_UNKNOWN : below \in BelowCalled})
               /\ evaluation.delta_down = TriBool_TRUE =>
                      evaluation.epsilon = TriBool_TRUE

\* C27 (amended): delta_down(g, s) equals epsilon(g, s) when s is a species
\* leaf; when s is not a leaf, each successor's delta_down is ORed in, after
\* is_possible has turned it into TRUE (from TRUE or UNKNOWN) or FALSE when
\* s is an episode candidate and unchanged when it is not; so at a non-leaf
\* candidate delta_down(g, s) = TRUE iff epsilon(g, s) = TRUE or some
\* successor's delta_down is TRUE or UNKNOWN.  A call below that aborts
\* aborts delta_down.
C27_CandidateMakesPossibleMatchBelowCertain ==
    evaluation.kind = "Ok" =>
        /\ CalledSpeciesIsLeaf => evaluation.delta_down = evaluation.epsilon
        /\ ~CalledSpeciesIsLeaf =>
               IF Panic \in BelowCalled \cup {evaluation.epsilon}
               THEN evaluation.delta_down = Panic
               ELSE IF evaluation.species_node \in episode_candidates
               THEN /\ evaluation.delta_down =
                           OrOfSet({evaluation.epsilon} \cup
                               {IF below = TriBool_FALSE THEN TriBool_FALSE
                                ELSE TriBool_TRUE : below \in BelowCalled})
                    /\ evaluation.delta_down = TriBool_TRUE <=>
                           \/ evaluation.epsilon = TriBool_TRUE
                           \/ BelowCalled # {TriBool_FALSE}
               ELSE evaluation.delta_down =
                        OrOfSet({evaluation.epsilon} \cup BelowCalled)

\* delta_down was called at a non-leaf episode candidate where epsilon is
\* not TRUE and the only match below is UNKNOWN, and returned TRUE
C27_Witness ==
    /\ evaluation.kind = "Ok"
    /\ ~CalledSpeciesIsLeaf
    /\ evaluation.species_node \in episode_candidates
    /\ evaluation.epsilon \in {TriBool_FALSE, TriBool_UNKNOWN}
    /\ TriBool_UNKNOWN \in BelowCalled
    /\ TriBool_TRUE \notin BelowCalled
    /\ Panic \notin BelowCalled
    /\ evaluation.delta_down = TriBool_TRUE

----------------------------------------------------------------------------
\* the number of arrows of the longest path from a node down to a leaf
RECURSIVE Height(_, _)
Height(graph, node) ==
    IF graph.successors_map[node] = <<>> THEN 0
    ELSE 1 + Max(Height(graph, graph.successors_map[node][1]),
                 Height(graph, graph.successors_map[node]
                                   [Len(graph.successors_map[node])]))

\* C29: the evaluation of delta_down(gene_root, species_root) terminates:
\* along every chain of nested calls the pair of nodes descends in the gene
\* network or in the species network within four calls, so the nesting
\* depth is at most 4 * height(gene_root) + height(species_root) + 3.
C29_NestingIsBoundedByTheHeights ==
    evaluation.kind = "Ok" =>
        evaluation.depth <=
            4 * Height(CalledGenes.graph, evaluation.gene_node)
                + Height(CalledSpecies.graph, evaluation.species_node) + 3

\* delta_down was called on the roots of two trees of height 2 and its
\* calls went as deep as the bound allows
C29_Witness ==
    /\ evaluation.kind = "Ok"
    /\ Height(CalledGenes.graph, evaluation.gene_node) = 2
    /\ Height(CalledSpecies.graph, evaluation.species_node) = 2
    /\ evaluation.depth = 13

----------------------------------------------------------------------------
\* the calls of cancel that returned Ok, and the calls of register that did
CancelledOk == {c \in Cancellers : cancellers[c].result = "Ok"}

RegisteredOk ==
    {n \in 1 .. Len(registrar.calls) : registrar.calls[n].result = "Ok"}

\* the registrations whose unregister was not called
NotUnregistered == {n \in RegisteredOk : registrar.calls[n].indicator = "held"}

\* C21: under any interleaving of cancel calls made through the source and
\* its clones exactly one returns Ok and every other Err(IsCancelled); every
\* callback registered successfully and not unregistered is called exactly
\* once, by the successful cancel; no callback is called twice; and once
\* the state is IsCancelled it never returns to Ok.
C21_OneCancelCallsEachCallbackOnce ==
    /\ Cardinality(CancelledOk) <= 1
    /\ (\A c \in Cancellers : cancellers[c].pc = "returned") =>
           /\ Cardinality(CancelledOk) = 1
           /\ \A c \in Cancellers \ CancelledOk :
                  cancellers[c].result = "IsCancelled"
    /\ \A c \in CancelledOk : \A n \in NotUnregistered : called[n] = <<c>>
    /\ \A n \in DOMAIN called : Len(called[n]) <= 1
    /\ (\E c \in Cancellers : cancellers[c].pc \in {"calling", "returned"})
           => get_state(boxed, token_data) = "IsCancelled"

----------------------------------------------------------------------------
\* C22: for register racing with cancel on the same token, in any
\* interleaving: register returns Ok and its callback is called exactly once
\* by the cancel, or it returns an error carrying the callback and the state
\* (IsCancelled when the token is already cancelled, NotCancellable for a
\* default token) and the callback is never called; no callback is both
\* returned and called, and no successfully registered callback is lost.
C22_RegisteredOrReturned ==
    \A n \in 1 .. Len(registrar.calls) :
        LET call == registrar.calls[n] IN
        /\ call.result \in {"Ok", "IsCancelled", "NotCancellable"}
        /\ call.result = "NotCancellable" <=> call.ptr = null_mut
        /\ call.result = "IsCancelled" => token_data.is_cancelled
        /\ call.result # "Ok" => called[n] = <<>>
        /\ call.result = "Ok" =>
               /\ Len(called[n]) <= 1
               /\ \A c \in CancelledOk : called[n] = <<c>>

\* cancel returned Ok after calling the callback of a register that
\* returned Ok, a register that had read the state Ok before the cancel was
\* turned away under the lock, and a register on the default token was
\* turned away
C22_Witness ==
    /\ \E c \in CancelledOk : \E n \in RegisteredOk : called[n] = <<c>>
    /\ \E n \in 1 .. Len(registrar.calls) :
           /\ registrar.calls[n].result = "IsCancelled"
           /\ registrar.calls[n].locked
           /\ called[n] = <<>>
    /\ \E n \in 1 .. Len(registrar.calls) :
           registrar.calls[n].result = "NotCancellable"

----------------------------------------------------------------------------
\* the registrations whose unregister was called before the token was
\* cancelled
UnregisteredBeforeCancel ==
    {n \in RegisteredOk : /\ registrar.calls[n].indicator # "held"
                          /\ ~registrar.calls[n].is_cancelled}

\* C23: for any sequence of register, unregister and cancel on one token,
\* unregister completes without panicking and removes exactly the callback
\* of its own registration: a callback unregistered before cancel is never
\* called and every other registered callback is called exactly once on
\* cancel, whatever the number and order of earlier unregistrations (also
\* after the vector was compacted) and when unregister is called after
\* cancel.
C23_UnregisterRemovesItsOwnCallback ==
    /\ registrar.pc # "panicked"
    /\ \A n \in UnregisteredBeforeCancel : called[n] = <<>>
    /\ \A c \in CancelledOk :
           \A n \in RegisteredOk \ UnregisteredBeforeCancel :
               called[n] = <<c>>

----------------------------------------------------------------------------
(* InMemoryStream as a byte queue.                                          *)

IsPrefix(short, long) ==
    /\ Len(short) <= Len(long)
    /\ SubSeq(long, 1, Len(short)) = short

\* the last call was a read that returned Ok
ReadOk ==
    /\ stream.kind = "InMemoryStream"
    /\ stream.last.op = "read"
    /\ stream.last.kind = "Ok"

\* the bytes the stream held when the last read, a successful one, began
StoredBeforeRead ==
    Len(stream.total_write)
        - (Len(stream.total_read) - stream.last.read_bytes)

\* what was read is a prefix of what was written, and a successful read
\* returns min(buffer length, bytes stored) bytes
ReadsFollowWrites ==
    /\ stream.kind = "InMemoryStream"
           => IsPrefix(stream.total_read, stream.total_write)
    /\ ReadOk
           => stream.last.read_bytes =
                  min(stream.last.buffer_len, StoredBeforeRead)

\* C24, as stated: the bytes returned by reads are at all times a prefix of
\* the bytes written, each successful read returns min(buffer length, bytes
\* currently stored) bytes, and whenever a read returns 0 bytes everything
\* written has been read.
C24_ReadOfZeroBytesMeansDrained ==
    /\ ReadsFollowWrites
    /\ (ReadOk /\ stream.last.read_bytes = 0)
           => stream.total_read = stream.total_write

\* C24, amended: the bytes returned by reads are at all times a prefix of
\* the bytes written, each successful read returns min(buffer length, bytes
\* currently stored) bytes, and whenever a read into a buffer that is not
\* empty returns 0 bytes everything written has been read.
C24_ReadOfZeroBytesIntoABufferMeansDrained ==
    /\ ReadsFollowWrites
    /\ (ReadOk /\ stream.last.buffer_len > 0 /\ stream.last.read_bytes = 0)
           => stream.total_read = stream.total_write

\* every byte the bound allows was written over several pages, the pages
\* read were rotated away, and a read into a buffer returned 0 bytes
C24_Witness ==
    /\ ReadOk
    /\ stream.last.buffer_len > 0
    /\ stream.last.read_bytes = 0
    /\ Len(stream.total_write) = MaxWritten
    /\ stream.total_read = stream.total_write
    /\ stream.self.start_idx = 0
    /\ stream.self.end_idx = 0
    /\ Len(stream.self.pages) >= 2

============================================================================
